---------------------------- MODULE Spec2Model ----------------------------
(***************************************************************************)
(* A model of the ingestion-and-scoring pipeline of ai-anomaly-detector:   *)
(* the file-backed connectors' incremental reads, the connector runtime    *)
(* (monitor loop, start/stop), the DataSourceManager and the rule-based    *)
(* risk scorer.                                                            *)
(***************************************************************************)
EXTENDS Integers, Sequences, FiniteSets, TLC

\* ------------------------------------------------------------------------
\* Bounds of the model
\* ------------------------------------------------------------------------
MaxBytes == 3       \* bytes the log writers append to one file in a behaviour
MaxEvents == 3      \* file-system notifications delivered in a behaviour
MaxStarts == 3      \* start_monitoring() calls made in a behaviour
MaxConnectors == 2  \* connectors registered with the manager
MaxLines == 2       \* lines syslog and the web server append to one file

\* ------------------------------------------------------------------------
\* Python helpers
\* ------------------------------------------------------------------------
\* d.get(k, default) on a dict modelled as a function
DictGet(d, k, default) == IF k \in DOMAIN d THEN d[k] ELSE default

\* d[k] = v on a dict modelled as a function
DictPut(d, k, v) == [x \in (DOMAIN d) \cup {k} |-> IF x = k THEN v ELSE d[x]]

EmptyDict == [x \in {} |-> 0]

\* worker_thread = None; a thread is named by its place in threads
NoThread == 0

Range(s) == {s[i] : i \in DOMAIN s}

\* ------------------------------------------------------------------------
\* The file system the connectors read.  A file is a sequence of bytes;
\* a byte is <<id, ch>>: id is the serial number, within its file, of the
\* write that produced it, ch is "\n" for a newline and "a" for any other
\* character.
\* ------------------------------------------------------------------------
Files == {"auth.log", "secure", "access.log", "mysql.log"}

\* The host is a Debian-style one: syslog writes auth.log, and no file named
\* secure exists.
LiveFiles == {"auth.log"}

VARIABLES
    connectors,   \* name -> connector object (DataSourceManager.connectors)
    fs,           \* file -> [ok: readable, data: bytes]
    wr,           \* file -> number of bytes ever appended to it
    gen,          \* the caller's fetch_events generator
    yielded,      \* <<file, record>> yielded by the caller's current/last call
    ncalls,       \* fetch_events calls begun (0, 1, 2 = two or more)
    touched,      \* file -> changed since the current call began
    touchedPrev,  \* file -> changed between the previous call's begin and this one's
    mark,         \* file -> wr[file] when connect() last returned
    connState     \* "new": never connected; "just": the last step was connect();
                  \* "connected": connected, no fetch_events call begun since;
                  \* "fetched": a fetch_events call has begun since connect()

VARIABLES
    threads,      \* the monitor threads ever created: [pc, item]
    ctl,          \* where the thread that calls start/stop_monitoring is
    callErr,      \* the exception its last call raised, "" for none
    dirOK,        \* the watched directory exists
    orphan,       \* an observer that connect() replaced is still running
    nev,          \* file-system notifications delivered so far
    nstart,       \* start_monitoring() calls made so far
    stopped,      \* stop_monitoring() has returned and start_monitoring()
                  \* has not been called since
    putAfterStop  \* an event was put on event_queue while stopped

VARIABLES
    registered,   \* the names of DataSourceManager.connectors, in insertion order
    mgr,          \* the DataSourceManager: [is_running]
    mpc,          \* the manager's caller: [op, i] (i: place in registered)
    outcome,      \* name -> how connect() ended in the last start_all_connectors
    calls,        \* name -> connect() calls made by the last start_all_connectors
    collected,    \* what collect_recent_events() last returned
    lastOp,       \* the manager operation that was the last step, "" if none
    dbUp,         \* name -> the connector's database accepts connections
    apiStatus     \* 'status' of the last /api/real-data response, "" if none

\* a train call and an analyze_event call in progress on two threads
VARIABLES
    building,  \* <<>> or the DataFrame and the local dict profiles of the train call
    scorer     \* where the analyze_event call is, its event, and what the
               \* table it first read makes of the event

swapVars == <<building, scorer>>

\* a call of standardize_event
VARIABLES
    std        \* the event_data handed in and the event returned

stdVars == <<std>>

\* the caller of batch_analyze
VARIABLES
    csv,    \* the rows of the CSV file last given to batch_analyze
    run,    \* how that call ended, and the list it returned
    seen    \* <<>> or one row of an earlier file with the result it was given

batchVars == <<csv, run, seen>>

\* the state of a SimpleAnomalyDetector and of its caller
VARIABLES
    user_profiles, \* user_id -> profile, as train() left it
    result,        \* what the last call of analyze_event handed back
    prev,          \* <<>> or the anomaly count and the score of the call before
    trained        \* how the last call of train ended, and the DataFrame it read

scoreVars == <<user_profiles, result, prev, trained>>

mgrVars == <<registered, mgr, mpc, outcome, calls, collected, lastOp, dbUp, apiStatus>>

fileVars == <<fs, wr, gen, yielded, ncalls, touched, touchedPrev, mark, connState>>

runVars == <<threads, ctl, callErr, dirOK, orphan, nev, nstart, stopped, putAfterStop>>

vars == <<connectors, fileVars, runVars, mgrVars, scoreVars, batchVars, swapVars, stdVars>>

\* ------------------------------------------------------------------------
\* File-backed connectors (LinuxAuthConnector; WebLogConnector and
\* DatabaseConnector hold the same connect/_get_file_size/fetch_events code)
\* ------------------------------------------------------------------------
DefaultAuthFiles == <<"auth.log", "secure">>

\* LinuxAuthConnector.__init__ (with BaseConnector.__init__)
NewLinuxAuth(files) ==
    [kind |-> "LinuxAuthConnector",
     is_running |-> FALSE,
     event_queue |-> <<>>,
     worker_thread |-> NoThread,
     log_files |-> files,
     last_positions |-> EmptyDict]

\* os.path.getsize through _get_file_size
GetFileSize(f) == Len(fs[f].data)

\* os.path.exists(f) and os.access(f, os.R_OK)
Accessible(f) == fs[f].ok

\* the position connect() records for an accessible file
ConnectPosition_Zero(f) == 0
ConnectPosition(f) == GetFileSize(f)

RECURSIVE RecordPositions(_, _)
RecordPositions(files, pos) ==
    IF files = <<>> THEN pos
    ELSE RecordPositions(Tail(files),
                         IF Accessible(Head(files))
                         THEN DictPut(pos, Head(files), ConnectPosition(Head(files)))
                         ELSE pos)

\* connect(): the connector afterwards, and the result
ConnectOp(conn) ==
    LET accessible == SelectSeq(conn.log_files, Accessible)
    IN  [conn |-> [conn EXCEPT !.log_files = accessible,
                               !.last_positions =
                                   RecordPositions(conn.log_files, conn.last_positions)],
         result |-> Len(accessible) > 0]

\* f.readlines(): the bytes cut after every newline
RECURSIVE ReadLines(_)
ReadLines(s) ==
    IF s = <<>> THEN <<>>
    ELSE LET nl == {i \in 1..Len(s) : s[i][2] = "\n"}
             k  == IF nl = {} THEN Len(s)
                   ELSE CHOOSE i \in nl : \A j \in nl : i <= j
         IN  <<SubSeq(s, 1, k)>> \o ReadLines(SubSeq(s, k + 1, Len(s)))

\* line.strip()
Strip(line) == SelectSeq(line, LAMBDA b : b[2] # "\n")

\* f.seek(pos); f.readlines(), each line stripped
NewLines(f, pos) ==
    LET data == fs[f].data
        rest == IF pos >= Len(data) THEN <<>> ELSE SubSeq(data, pos + 1, Len(data))
        ls   == ReadLines(rest)
    IN  [i \in 1..Len(ls) |-> Strip(ls[i])]

\* the offset fetch_events stores after reading a file
AdvancedPosition_Rewind(old, current_size) == 0
AdvancedPosition_Stale(old, current_size) == old
AdvancedPosition(old, current_size) == current_size

\* One file of fetch_events after its size check: the new last_positions and
\* the records yielded.  open() raises on an unreadable file and the except
\* branch leaves everything as it was.
FetchFile_AdvanceOnError(conn, f, current_size) ==
    LET last_position == DictGet(conn.last_positions, f, 0)
    IN  IF current_size > last_position
        THEN [pos |-> DictPut(conn.last_positions, f, current_size),
              out |-> IF fs[f].ok THEN NewLines(f, last_position) ELSE <<>>]
        ELSE [pos |-> conn.last_positions, out |-> <<>>]
FetchFile(conn, f, current_size) ==
    LET last_position == DictGet(conn.last_positions, f, 0)
    IN  IF current_size > last_position /\ fs[f].ok
        THEN [pos |-> DictPut(conn.last_positions, f,
                              AdvancedPosition(last_position, current_size)),
              out |-> NewLines(f, last_position)]
        ELSE [pos |-> conn.last_positions, out |-> <<>>]


\* ------------------------------------------------------------------------
\* The log writers and the file system (the connector's environment)
\* ------------------------------------------------------------------------
\* connState after a step that is not a call of the connector
Settled == IF connState = "just" THEN "connected" ELSE connState

Touch(f) == touched' = [touched EXCEPT ![f] = TRUE]

\* a writer appends one byte to a log file
AppendByte(f, ch) ==
    /\ wr[f] < MaxBytes
    /\ wr' = [wr EXCEPT ![f] = @ + 1]
    /\ fs' = [fs EXCEPT ![f].data = Append(@, <<wr[f] + 1, ch>>)]
    /\ Touch(f)
    /\ connState' = Settled
    /\ UNCHANGED <<connectors, gen, yielded, ncalls, touchedPrev, mark, runVars, mgrVars,
                   scoreVars, batchVars, swapVars, stdVars>>

\* logrotate (copytruncate) or an operator cuts a log file to n bytes
Truncate(f, n) ==
    /\ n < Len(fs[f].data)
    /\ fs' = [fs EXCEPT ![f].data = SubSeq(@, 1, n)]
    /\ Touch(f)
    /\ connState' = Settled
    /\ UNCHANGED <<connectors, wr, gen, yielded, ncalls, touchedPrev, mark, runVars, mgrVars,
                   scoreVars, batchVars, swapVars, stdVars>>

\* read permission on a log file is revoked or granted
SetAccess(f) ==
    /\ fs' = [fs EXCEPT ![f].ok = ~@]
    /\ Touch(f)
    /\ connState' = Settled
    /\ UNCHANGED <<connectors, wr, gen, yielded, ncalls, touchedPrev, mark, runVars, mgrVars,
                   scoreVars, batchVars, swapVars, stdVars>>

\* ------------------------------------------------------------------------
\* A caller that uses one file-backed connector directly: connect() and
\* fully consumed fetch_events() calls, one after the other
\* ------------------------------------------------------------------------
FC == "linux_auth"

GenIdle == [active |-> FALSE, i |-> 0, phase |-> "done", current_size |-> 0]

\* the generator object after the step that leaves file i
GenAfterFile(conn, i) ==
    IF i < Len(conn.log_files)
    THEN [active |-> TRUE, i |-> i + 1, phase |-> "stat", current_size |-> 0]
    ELSE GenIdle

Connect ==
    /\ ~gen.active
    /\ connectors' = [connectors EXCEPT ![FC] = ConnectOp(@).conn]
    /\ mark' = wr
    /\ connState' = "just"
    /\ UNCHANGED <<fs, wr, gen, yielded, ncalls, touched, touchedPrev, runVars, mgrVars,
                   scoreVars, batchVars, swapVars, stdVars>>

\* fetch_events() is called and the caller starts to iterate it
FetchBegin ==
    /\ ~gen.active
    /\ gen' = GenAfterFile(connectors[FC], 0)
    /\ yielded' = <<>>
    /\ ncalls' = IF ncalls < 2 THEN ncalls + 1 ELSE 2
    /\ touchedPrev' = touched
    /\ touched' = [f \in Files |-> FALSE]
    /\ connState' = IF connState = "new" THEN "new" ELSE "fetched"
    /\ UNCHANGED <<connectors, fs, wr, mark, runVars, mgrVars, scoreVars, batchVars, swapVars,
                   stdVars>>

\* current_size = self._get_file_size(log_file)
FetchStat ==
    /\ gen.active /\ gen.phase = "stat"
    /\ gen' = [gen EXCEPT !.phase = "read",
                          !.current_size = GetFileSize(connectors[FC].log_files[gen.i])]
    /\ connState' = Settled
    /\ UNCHANGED <<connectors, fs, wr, yielded, ncalls, touched, touchedPrev, mark, runVars, mgrVars,
                   scoreVars, batchVars, swapVars, stdVars>>

\* the comparison, the read, the offset update and the yields of one file
FetchRead ==
    /\ gen.active /\ gen.phase = "read"
    /\ LET f == connectors[FC].log_files[gen.i]
           r == FetchFile(connectors[FC], f, gen.current_size)
       IN  /\ connectors' = [connectors EXCEPT ![FC].last_positions = r.pos]
           /\ yielded' = yielded \o [k \in 1..Len(r.out) |-> <<f, r.out[k]>>]
    /\ gen' = GenAfterFile(connectors[FC], gen.i)
    /\ connState' = Settled
    /\ UNCHANGED <<fs, wr, ncalls, touched, touchedPrev, mark, runVars, mgrVars,
                   scoreVars, batchVars, swapVars, stdVars>>

\* the manager's variables where no DataSourceManager is used
NoResult == [status |-> "none"]

IdleStd == std = [status |-> "none"]

IdleSwap ==
    /\ building = <<>>
    /\ scorer = [pc |-> "idle"]

IdleBatch ==
    /\ csv = <<>>
    /\ run = [status |-> "none"]
    /\ seen = <<>>

IdleScore ==
    /\ user_profiles = EmptyDict
    /\ result = NoResult
    /\ prev = <<>>
    /\ trained = [status |-> "none", df |-> <<>>]

IdleMgr ==
    /\ registered = <<>>
    /\ mgr = [is_running |-> FALSE]
    /\ mpc = [op |-> "idle", i |-> 0]
    /\ outcome = EmptyDict
    /\ calls = EmptyDict
    /\ collected = <<>>
    /\ lastOp = ""
    /\ dbUp = EmptyDict
    /\ apiStatus = ""

\* the runtime's variables where no monitor thread is ever started
IdleRun ==
    /\ threads = <<>>
    /\ ctl = "idle"
    /\ callErr = ""
    /\ dirOK = FALSE
    /\ orphan = FALSE
    /\ nev = 0
    /\ nstart = 0
    /\ stopped = FALSE
    /\ putAfterStop = FALSE

InitFile ==
    /\ connectors = [n \in {FC} |-> NewLinuxAuth(DefaultAuthFiles)]
    /\ fs \in {x \in [Files -> [ok : BOOLEAN, data : {<<>>}]] :
                   \A f \in Files \ LiveFiles : ~x[f].ok}
    /\ wr = [f \in Files |-> 0]
    /\ gen = GenIdle
    /\ yielded = <<>>
    /\ ncalls = 0
    /\ touched = [f \in Files |-> FALSE]
    /\ touchedPrev = [f \in Files |-> FALSE]
    /\ mark = [f \in Files |-> 0]
    /\ connState = "new"
    /\ IdleRun
    /\ IdleMgr
    /\ IdleScore
    /\ IdleBatch
    /\ IdleSwap
    /\ IdleStd

\* the bytes the log writers of this specification write
LineChars == {"a", "\n"}

NextFile ==
    \/ \E f \in LiveFiles, ch \in LineChars : AppendByte(f, ch)
    \/ \E f \in LiveFiles, n \in 0..MaxBytes : Truncate(f, n)
    \/ \E f \in LiveFiles : SetAccess(f)
    \/ Connect
    \/ FetchBegin
    \/ FetchStat
    \/ FetchRead

SpecFile == InitFile /\ [][NextFile]_vars

\* ------------------------------------------------------------------------
\* Properties of the file-backed connector (SpecFile)
\* ------------------------------------------------------------------------
Pos(f) == DictGet(connectors[FC].last_positions, f, 0)

YieldedFor(f) == SelectSeq(yielded, LAMBDA y : y[1] = f)

\* the file did not change from the begin of the previous call to now
Quiet(f) == ncalls = 2 /\ ~touchedPrev[f] /\ ~touched[f]

\* C1: of two consecutive fetch_events calls with no change of the file from
\* the begin of the earlier one on, the later call yields no record for the
\* file (so it repeats none).
C1_NoRecordTwice ==
    \A f \in Files : Quiet(f) => YieldedFor(f) = <<>>

\* C1 witness: a second call has ended on a readable, unchanged file whose
\* content an earlier call consumed, and it yielded nothing.
C1_Witness ==
    /\ Quiet("auth.log") /\ ~gen.active /\ connState = "new"
    /\ fs["auth.log"].ok /\ Len(fs["auth.log"].data) > 0
    /\ Pos("auth.log") = Len(fs["auth.log"].data)
    /\ yielded = <<>>

\* C2 (as claimed): when the size check of a file finds it smaller than the
\* stored offset, the step that processes the file puts the offset back
\* inside the file (0, or the size just seen once the content is read from
\* the start) and yields the file's content from its first byte.
C2_TruncationResetsOffset ==
    [][\A f \in Files :
          ( /\ gen.active /\ gen.phase = "read" /\ gen' # gen
            /\ connectors[FC].log_files[gen.i] = f
            /\ fs[f].ok
            /\ gen.current_size < Pos(f) )
          => /\ DictGet(connectors'[FC].last_positions, f, 0) \in {0, gen.current_size}
             /\ yielded' = yielded \o
                   [k \in 1..Len(NewLines(f, 0)) |-> <<f, NewLines(f, 0)[k]>>]
      ]_vars

RC == "file_monitor"

\* self.observer: "none" is None, "new" an Observer not started yet
NoObserver == [state |-> "none", watching |-> FALSE]

\* FileMonitorConnector.__init__ (with BaseConnector.__init__)
NewFileMonitor ==
    [kind |-> "FileMonitorConnector",
     is_running |-> FALSE,
     event_queue |-> <<>>,
     worker_thread |-> NoThread,
     watch_directories |-> <<"/tmp">>,
     observer |-> NoObserver,
     file_events |-> <<>>]

\* self.observer and self.observer.is_alive()
ObserverAlive(conn) == conn.observer.state = "alive"

\* FileMonitorConnector.connect(): a new Observer with a watch on every
\* directory that exists, and True whether or not there is one
FMConnectOp(conn) ==
    [conn |-> [conn EXCEPT !.observer = [state |-> "new", watching |-> dirOK]],
     result |-> TRUE]

\* connect() is called; the Observer it replaces keeps running if alive
FMConnect ==
    /\ ctl = "idle"
    /\ orphan' = (orphan \/ (ObserverAlive(connectors[RC])
                               /\ connectors[RC].observer.watching))
    /\ connectors' = [connectors EXCEPT ![RC] = FMConnectOp(@).conn]
    /\ callErr' = ""
    /\ UNCHANGED <<threads, ctl, dirOK, nev, nstart, stopped, putAfterStop, fileVars, mgrVars,
                   scoreVars, batchVars, swapVars, stdVars>>

\* BaseConnector.start_monitoring on conn: the connector and the threads after
BaseStart(conn, ths) ==
    IF conn.is_running
    THEN [conn |-> conn, threads |-> ths]
    ELSE [conn |-> [conn EXCEPT !.is_running = TRUE,
                                !.worker_thread = Len(ths) + 1],
          threads |-> Append(ths, [pc |-> "while", item |-> <<>>])]

\* FileMonitorConnector.start_monitoring().  Thread.start() on an Observer
\* that was stopped raises RuntimeError before the base method is reached.
StartMonitoring ==
    /\ ctl = "idle"
    /\ nstart < MaxStarts
    /\ nstart' = nstart + 1
    /\ stopped' = FALSE
    /\ IF connectors[RC].observer.state = "stopped"
       THEN /\ callErr' = "RuntimeError"
            /\ UNCHANGED <<connectors, threads, scoreVars, batchVars, swapVars, stdVars>>
       ELSE LET withObs == IF connectors[RC].observer.state = "new"
                           THEN [connectors[RC] EXCEPT !.observer.state = "alive"]
                           ELSE connectors[RC]
                r == BaseStart(withObs, threads)
            IN  /\ connectors' = [connectors EXCEPT ![RC] = r.conn]
                /\ threads' = r.threads
                /\ callErr' = ""
    /\ UNCHANGED <<ctl, dirOK, orphan, nev, putAfterStop, fileVars, mgrVars,
                   scoreVars, batchVars, swapVars, stdVars>>

\* FileMonitorConnector.stop_monitoring(), first part: observer.stop(); join()
StopObserver ==
    /\ ctl = "idle"
    /\ connectors' = [connectors EXCEPT ![RC].observer.state =
                          IF @ = "alive" THEN "stopped" ELSE @]
    /\ ctl' = "stop_flag"
    /\ callErr' = ""
    /\ UNCHANGED <<threads, dirOK, orphan, nev, nstart, stopped, putAfterStop, fileVars, mgrVars,
                   scoreVars, batchVars, swapVars, stdVars>>

\* BaseConnector.stop_monitoring(): self.is_running = False
StopFlag ==
    /\ ctl = "stop_flag"
    /\ connectors' = [connectors EXCEPT ![RC].is_running = FALSE]
    /\ ctl' = "stop_join"
    /\ UNCHANGED <<threads, callErr, dirOK, orphan, nev, nstart, stopped, putAfterStop,
                   fileVars, mgrVars, scoreVars, batchVars, swapVars, stdVars>>

\* worker_thread.join() returns
JoinReturns_NoWait(t) == TRUE
JoinReturns(t) == threads[t].pc = "dead"

\* BaseConnector.stop_monitoring(): if self.worker_thread: join(); return
StopJoin ==
    /\ ctl = "stop_join"
    /\ IF connectors[RC].worker_thread = NoThread
       THEN TRUE
       ELSE JoinReturns(connectors[RC].worker_thread)
    /\ ctl' = "idle"
    /\ stopped' = TRUE
    /\ UNCHANGED <<connectors, threads, callErr, dirOK, orphan, nev, nstart, putAfterStop,
                   fileVars, mgrVars, scoreVars, batchVars, swapVars, stdVars>>

\* BaseConnector.get_events(): the queue is drained
GetEvents ==
    /\ ctl = "idle"
    /\ connectors[RC].event_queue # <<>>
    /\ connectors' = [connectors EXCEPT ![RC].event_queue = <<>>]
    /\ UNCHANGED <<runVars, fileVars, mgrVars, scoreVars, batchVars, swapVars, stdVars>>

\* a running observer delivers a notification: queue_file_event appends
FsEvent ==
    /\ nev < MaxEvents
    /\ \/ ObserverAlive(connectors[RC]) /\ connectors[RC].observer.watching
       \/ orphan
    /\ nev' = nev + 1
    /\ connectors' = [connectors EXCEPT ![RC].file_events =
                          Append(@, [event_type |-> "file_access", id |-> nev + 1])]
    /\ UNCHANGED <<threads, ctl, callErr, dirOK, orphan, nstart, stopped, putAfterStop,
                   fileVars, mgrVars, scoreVars, batchVars, swapVars, stdVars>>

\* BaseConnector.standardize_event
StandardizeEvent(conn, event_data) ==
    [event_type |-> event_data.event_type,
     id |-> event_data.id,
     source |-> conn.kind]

\* FileMonitorConnector.parse_event
FMParseEvent(conn, raw_event) == StandardizeEvent(conn, raw_event)

\* while self.is_running:
LoopWhile(t) ==
    /\ threads[t].pc = "while"
    /\ threads' = [threads EXCEPT ![t].pc =
                       IF connectors[RC].is_running THEN "next" ELSE "dead"]
    /\ UNCHANGED <<connectors, ctl, callErr, dirOK, orphan, nev, nstart, stopped,
                   putAfterStop, fileVars, mgrVars, scoreVars, batchVars, swapVars,
                   stdVars>>

\* for raw_event in self.fetch_events(): the generator pops the next
\* notification, or ends
LoopNext(t) ==
    /\ threads[t].pc = "next"
    /\ IF connectors[RC].file_events # <<>>
       THEN /\ threads' = [threads EXCEPT ![t] =
                   [pc |-> "chk", item |-> <<Head(connectors[RC].file_events)>>]]
            /\ connectors' = [connectors EXCEPT ![RC].file_events = Tail(@)]
       ELSE /\ threads' = [threads EXCEPT ![t].pc = "sleep"]
            /\ UNCHANGED connectors
    /\ UNCHANGED <<ctl, callErr, dirOK, orphan, nev, nstart, stopped, putAfterStop,
                   fileVars, mgrVars, scoreVars, batchVars, swapVars, stdVars>>

\* if not self.is_running: break
LoopCheck(t) ==
    /\ threads[t].pc = "chk"
    /\ threads' = [threads EXCEPT ![t] =
                       IF connectors[RC].is_running
                       THEN [pc |-> "put", item |-> @.item]
                       ELSE [pc |-> "sleep", item |-> <<>>]]
    /\ UNCHANGED <<connectors, ctl, callErr, dirOK, orphan, nev, nstart, stopped,
                   putAfterStop, fileVars, mgrVars, scoreVars, batchVars, swapVars,
                   stdVars>>

\* parsed_event = self.parse_event(raw_event); self.event_queue.put(...)
LoopPut(t) ==
    /\ threads[t].pc = "put"
    /\ connectors' = [connectors EXCEPT ![RC].event_queue =
                          Append(@, FMParseEvent(connectors[RC], threads[t].item[1]))]
    /\ threads' = [threads EXCEPT ![t] = [pc |-> "next", item |-> <<>>]]
    /\ putAfterStop' = (putAfterStop \/ stopped)
    /\ UNCHANGED <<ctl, callErr, dirOK, orphan, nev, nstart, stopped, fileVars, mgrVars,
                   scoreVars, batchVars, swapVars, stdVars>>

\* time.sleep(self.config.get('poll_interval', 5)) returns
LoopSleep(t) ==
    /\ threads[t].pc = "sleep"
    /\ threads' = [threads EXCEPT ![t].pc = "while"]
    /\ UNCHANGED <<connectors, ctl, callErr, dirOK, orphan, nev, nstart, stopped,
                   putAfterStop, fileVars, mgrVars, scoreVars, batchVars, swapVars,
                   stdVars>>

\* the file connector's variables where no log file is read
IdleFile ==
    /\ fs = [f \in Files |-> [ok |-> FALSE, data |-> <<>>]]
    /\ wr = [f \in Files |-> 0]
    /\ gen = GenIdle
    /\ yielded = <<>>
    /\ ncalls = 0
    /\ touched = [f \in Files |-> FALSE]
    /\ touchedPrev = [f \in Files |-> FALSE]
    /\ mark = [f \in Files |-> 0]
    /\ connState = "new"

InitRuntime ==
    /\ connectors = [n \in {RC} |-> NewFileMonitor]
    /\ threads = <<>>
    /\ ctl = "idle"
    /\ callErr = ""
    /\ dirOK \in BOOLEAN
    /\ orphan = FALSE
    /\ nev = 0
    /\ nstart = 0
    /\ stopped = FALSE
    /\ putAfterStop = FALSE
    /\ IdleFile
    /\ IdleMgr
    /\ IdleScore
    /\ IdleBatch
    /\ IdleSwap
    /\ IdleStd

NextRuntime ==
    \/ FMConnect
    \/ StartMonitoring
    \/ StopObserver
    \/ StopFlag
    \/ StopJoin
    \/ GetEvents
    \/ FsEvent
    \/ \E t \in 1..Len(threads) : LoopWhile(t)
    \/ \E t \in 1..Len(threads) : LoopNext(t)
    \/ \E t \in 1..Len(threads) : LoopCheck(t)
    \/ \E t \in 1..Len(threads) : LoopPut(t)
    \/ \E t \in 1..Len(threads) : LoopSleep(t)

SpecRuntime == InitRuntime /\ [][NextRuntime]_vars

\* ------------------------------------------------------------------------
\* Properties of the connector runtime (SpecRuntime)
\* ------------------------------------------------------------------------
LiveThreads == {t \in 1..Len(threads) : threads[t].pc # "dead"}

\* C4: once stop_monitoring() has returned (and until start_monitoring() is
\* called again) every monitor thread has exited and nothing has been put on
\* event_queue since.
C4_NoPutAfterStop ==
    stopped => (LiveThreads = {} /\ ~putAfterStop)

\* C4 witness: stop_monitoring() has returned on a connector whose loop was
\* in the middle of a batch: a notification is still waiting in file_events.
C4_Witness ==
    /\ stopped /\ ctl = "idle"
    /\ connectors[RC].worker_thread # NoThread
    /\ connectors[RC].file_events # <<>>

\* C5 (as claimed): a start_monitoring() call made while is_running is true
\* changes nothing (no field of the connector, no thread), and never more
\* than one monitor loop is running.
C5_StartIsNoOp ==
    [][ /\ (nstart' # nstart /\ connectors[RC].is_running)
            => (connectors' = connectors /\ threads' = threads)
        /\ Cardinality({t \in 1..Len(threads') : threads'[t].pc # "dead"}) <= 1
      ]_vars

\* ------------------------------------------------------------------------
\* The DataSourceManager and the connectors registered with it
\* ------------------------------------------------------------------------
\* WebLogConnector.__init__ (with BaseConnector.__init__)
NewWebLog(files) ==
    [kind |-> "WebLogConnector",
     is_running |-> FALSE,
     event_queue |-> <<>>,
     worker_thread |-> NoThread,
     log_files |-> files,
     last_positions |-> EmptyDict]

\* DatabaseConnector.__init__ (with BaseConnector.__init__); db_config is
\* modelled by whether connection parameters are configured
NewDatabase(files, configured) ==
    [kind |-> "DatabaseConnector",
     is_running |-> FALSE,
     event_queue |-> <<>>,
     worker_thread |-> NoThread,
     db_type |-> "mysql",
     log_files |-> files,
     db_config |-> configured,
     last_positions |-> EmptyDict]

\* the connectors an application registers with add_connector
Pool == {"linux_auth", "web_log", "db_main", "db_replica"}

Databases == {"db_main", "db_replica"}

NewConnector(name) ==
    CASE name = "linux_auth" -> NewLinuxAuth(DefaultAuthFiles)
      [] name = "web_log"    -> NewWebLog(<<"access.log">>)
      [] OTHER               -> NewDatabase(<<>>, TRUE)

\* DatabaseConnector.connect(): mysql.connector.connect raises when the
\* database is down and the except branch returns False
DBConnectOp(conn, up) ==
    IF conn.db_config /\ ~up
    THEN [conn |-> conn, result |-> FALSE]
    ELSE LET c2 == IF conn.log_files # <<>> THEN ConnectOp(conn).conn ELSE conn
         IN  [conn |-> c2, result |-> (Len(c2.log_files) > 0 \/ conn.db_config)]

\* connector.connect() of the connector registered as name
ConnectorConnect(name, conn) ==
    IF conn.kind = "DatabaseConnector"
    THEN DBConnectOp(conn, DictGet(dbUp, name, FALSE))
    ELSE ConnectOp(conn)

\* fetch_events() consumed whole, from file i of log_files on
RECURSIVE FetchEvents(_, _)
FetchEvents(conn, i) ==
    IF i > Len(conn.log_files)
    THEN [conn |-> conn, out |-> <<>>]
    ELSE LET f    == conn.log_files[i]
             r    == FetchFile(conn, f, GetFileSize(f))
             rest == FetchEvents([conn EXCEPT !.last_positions = r.pos], i + 1)
         IN  [conn |-> rest.conn, out |-> r.out \o rest.out]

\* the event_type the connector's patterns give a matching line
EventTypeOf(kind) ==
    CASE kind = "LinuxAuthConnector" -> "login"
      [] kind = "WebLogConnector"    -> "page_view"
      [] OTHER                       -> "database_query"

\* parse_event(raw_event): <<>> is None.  No pattern matches an empty line.
ParseEvent(conn, raw_event) ==
    IF raw_event = <<>>
    THEN <<>>
    ELSE <<StandardizeEvent(conn, [event_type |-> EventTypeOf(conn.kind),
                                   id |-> raw_event])>>

\* parsed_event['source_connector'] = name
Tagged(ev, name) ==
    [event_type |-> ev.event_type, id |-> ev.id, source |-> ev.source,
     source_connector |-> name]

\* the inner loop of collect_recent_events over one connector's records
RECURSIVE ParseAndTag(_, _, _)
ParseAndTag(conn, name, raws) ==
    IF raws = <<>> THEN <<>>
    ELSE LET parsed == ParseEvent(conn, Head(raws))
         IN  (IF parsed # <<>> THEN <<Tagged(parsed[1], name)>> ELSE <<>>)
             \o ParseAndTag(conn, name, Tail(raws))

\* collect_recent_events over the connectors names, in dict order
RECURSIVE CollectFrom(_, _, _)
CollectFrom(names, conns, all_events) ==
    IF names = <<>>
    THEN [connectors |-> conns, all_events |-> all_events]
    ELSE LET name == Head(names)
             r    == FetchEvents(conns[name], 1)
         IN  CollectFrom(Tail(names),
                         [conns EXCEPT ![name] = r.conn],
                         all_events \o ParseAndTag(conns[name], name, r.out))

\* the methods class DataSourceManager defines
ManagerMethods ==
    {"__init__", "add_connector", "start_all_connectors", "collect_recent_events",
     "export_events"}

\* manager.<method>(): Python raises AttributeError for a name the class
\* does not define
Lookup(method) == IF method \in ManagerMethods THEN "bound" ELSE "AttributeError"

\* what the last manager call handed back to its caller: the operation,
\* the status of the HTTP response, the list of events
Returned(op, status, events) ==
    /\ lastOp' = op
    /\ apiStatus' = status
    /\ collected' = events

\* add_connector(name, connector)
AddConnector(name, up) ==
    /\ mpc.op = "idle"
    /\ dbUp' = IF name \in Databases THEN DictPut(dbUp, name, up) ELSE dbUp
    /\ name \notin Range(registered)
    /\ Len(registered) < MaxConnectors
    /\ registered' = Append(registered, name)
    /\ connectors' = [n \in Range(registered) \cup {name} |->
                          IF n = name THEN NewConnector(name) ELSE connectors[n]]
    /\ Returned("", "", <<>>)
    /\ UNCHANGED <<mgr, mpc, outcome, calls, fileVars, runVars, scoreVars, batchVars, swapVars,
                   stdVars>>

\* start_all_connectors() is called
StartAllBegin ==
    /\ mpc.op = "idle"
    /\ registered # <<>>
    /\ mpc' = [op |-> "start_all", i |-> 1]
    /\ outcome' = [n \in Range(registered) |-> "none"]
    /\ calls' = [n \in Range(registered) |-> 0]
    /\ Returned("", "", <<>>)
    /\ UNCHANGED <<connectors, registered, mgr, dbUp, fileVars, runVars, scoreVars, batchVars,
                   swapVars, stdVars>>

\* the place in the dict the loop of start_all_connectors goes to next
StartAllNext(i, ok) == i + 1

\* one turn of the loop of start_all_connectors: try: connector.connect()
StartAllConnect ==
    /\ mpc.op = "start_all"
    /\ mpc.i <= Len(registered)
    /\ LET name == registered[mpc.i]
           r    == ConnectorConnect(name, connectors[name])
       IN  /\ connectors' = [connectors EXCEPT ![name] = r.conn]
           /\ outcome' = [outcome EXCEPT ![name] = IF r.result THEN "ok" ELSE "failed"]
           /\ calls' = [calls EXCEPT ![name] = @ + 1]
           /\ mpc' = [mpc EXCEPT !.i = StartAllNext(mpc.i, r.result)]
    /\ UNCHANGED <<registered, mgr, collected, lastOp, dbUp, apiStatus,
                   fileVars, runVars, scoreVars, batchVars, swapVars, stdVars>>

\* self.is_running = True; start_all_connectors returns
StartAllEnd ==
    /\ mpc.op = "start_all"
    /\ mpc.i > Len(registered)
    /\ mgr' = [mgr EXCEPT !.is_running = TRUE]
    /\ mpc' = [op |-> "idle", i |-> 0]
    /\ Returned("start_all", "", <<>>)
    /\ UNCHANGED <<connectors, registered, outcome, calls, dbUp, fileVars, runVars,
                   scoreVars, batchVars, swapVars, stdVars>>

\* collect_recent_events()
CollectRecentEvents ==
    /\ mpc.op = "idle"
    /\ registered # <<>>
    /\ LET r == CollectFrom(registered, connectors, <<>>)
       IN  /\ connectors' = r.connectors
           /\ Returned("collect", "", r.all_events)
    /\ UNCHANGED <<registered, mgr, mpc, outcome, calls, dbUp, fileVars, runVars,
                   scoreVars, batchVars, swapVars, stdVars>>

\* /api/real-data/stop (and the CLI's Ctrl+C branch):
\* data_manager.stop_all_connectors() inside try/except Exception
StopAllRoute ==
    /\ mpc.op = "idle"
    /\ Returned("stop_all",
                IF Lookup("stop_all_connectors") = "AttributeError"
                THEN "failed" ELSE "success",
                <<>>)
    /\ UNCHANGED <<connectors, registered, mgr, mpc, outcome, calls, dbUp,
                   fileVars, runVars, scoreVars, batchVars, swapVars, stdVars>>

\* the connector the application also runs a monitor loop on
MC == "linux_auth"

\* connector.start_monitoring() on the registered connector MC
MgrStartMonitoring ==
    /\ mpc.op = "idle"
    /\ MC \in Range(registered)
    /\ LET r == BaseStart(connectors[MC], threads)
       IN  /\ connectors' = [connectors EXCEPT ![MC] = r.conn]
           /\ threads' = r.threads
    /\ Returned("", "", <<>>)
    /\ UNCHANGED <<registered, mgr, mpc, outcome, calls, dbUp, fileVars,
                   ctl, callErr, dirOK, orphan, nev, nstart, stopped, putAfterStop,
                   scoreVars, batchVars, swapVars, stdVars>>

\* the events one turn of _monitor_loop puts on the queue
RECURSIVE ParseAll(_, _)
ParseAll(conn, raws) ==
    IF raws = <<>> THEN <<>>
    ELSE ParseEvent(conn, Head(raws)) \o ParseAll(conn, Tail(raws))

\* one whole turn of MC's _monitor_loop: fetch, parse, put
MgrLoopTurn ==
    /\ MC \in Range(registered)
    /\ connectors[MC].is_running
    /\ LET r == FetchEvents(connectors[MC], 1)
       IN  /\ r.out # <<>>
           /\ connectors' = [connectors EXCEPT ![MC] =
                  [r.conn EXCEPT !.event_queue = @ \o ParseAll(r.conn, r.out)]]
    /\ Returned("", "", <<>>)
    /\ UNCHANGED <<registered, mgr, mpc, outcome, calls, dbUp, fileVars, runVars,
                   scoreVars, batchVars, swapVars, stdVars>>

\* the number of lines the environment has written so far
RECURSIVE CountNewlines(_)
CountNewlines(data) ==
    IF data = <<>> THEN 0
    ELSE (IF Head(data)[2] = "\n" THEN 1 ELSE 0) + CountNewlines(Tail(data))

LinesWritten == CountNewlines(fs["auth.log"].data) + CountNewlines(fs["access.log"].data)

\* syslog or the web server appends one line; blank lines match no pattern
AppendLine(f, line) ==
    /\ LinesWritten < MaxLines
    /\ wr' = [wr EXCEPT ![f] = @ + Len(line)]
    /\ fs' = [fs EXCEPT ![f].data = @ \o [k \in 1..Len(line) |-> <<wr[f] + k, line[k]>>]]
    /\ Returned("", "", <<>>)
    /\ UNCHANGED <<connectors, registered, mgr, mpc, outcome, calls, dbUp,
                   gen, yielded, ncalls, touched, touchedPrev, mark, connState,
                   runVars, scoreVars, batchVars, swapVars, stdVars>>

Lines == {<<"a", "\n">>, <<"\n">>}

MgrFiles == {"auth.log", "access.log"}

InitMgr ==
    /\ connectors = EmptyDict
    /\ registered = <<>>
    /\ mgr = [is_running |-> FALSE]
    /\ mpc = [op |-> "idle", i |-> 0]
    /\ outcome = EmptyDict
    /\ calls = EmptyDict
    /\ collected = <<>>
    /\ lastOp = ""
    /\ dbUp = EmptyDict
    /\ apiStatus = ""
    /\ fs \in {x \in [Files -> [ok : BOOLEAN, data : {<<>>}]] :
                   x["access.log"].ok /\ ~x["secure"].ok /\ ~x["mysql.log"].ok}
    /\ wr = [f \in Files |-> 0]
    /\ gen = GenIdle
    /\ yielded = <<>>
    /\ ncalls = 0
    /\ touched = [f \in Files |-> FALSE]
    /\ touchedPrev = [f \in Files |-> FALSE]
    /\ mark = [f \in Files |-> 0]
    /\ connState = "new"
    /\ IdleRun
    /\ IdleScore
    /\ IdleBatch
    /\ IdleSwap
    /\ IdleStd

NextMgr ==
    \/ \E name \in Pool, up \in BOOLEAN : AddConnector(name, up)
    \/ StartAllBegin
    \/ StartAllConnect
    \/ StartAllEnd
    \/ CollectRecentEvents
    \/ StopAllRoute
    \/ MgrStartMonitoring
    \/ MgrLoopTurn
    \/ \E f \in MgrFiles, line \in Lines : AppendLine(f, line)

SpecMgr == InitMgr /\ [][NextMgr]_vars

\* ------------------------------------------------------------------------
\* Properties of the DataSourceManager
\* ------------------------------------------------------------------------
\* place of a name in the registration order
RegIndex(name) == CHOOSE i \in 1..Len(registered) : registered[i] = name

\* the serial number of the first byte of the line an event was parsed from
FirstByte(ev) == ev.id[1][1]

\* every event waiting on a registered connector's event_queue is in the list
\* the call of collect_recent_events returns
QueuedAreReturned ==
    \A n \in Range(registered) :
        \A k \in 1..Len(connectors[n].event_queue) :
            \E j \in 1..Len(collected') :
                /\ collected'[j].source_connector = n
                /\ collected'[j].id = connectors[n].event_queue[k].id

\* every returned event carries the registration name of its producer
TaggedWithProducer ==
    \A j \in 1..Len(collected') :
        /\ collected'[j].source_connector \in Range(registered)
        /\ collected'[j].source = connectors[collected'[j].source_connector].kind

\* registration order, and production order within one connector
InRegistrationOrder ==
    \A i, j \in 1..Len(collected') :
        i < j =>
            /\ RegIndex(collected'[i].source_connector)
                   <= RegIndex(collected'[j].source_connector)
            /\ collected'[i].source_connector = collected'[j].source_connector
                   => FirstByte(collected'[i]) < FirstByte(collected'[j])

\* C6: a call of collect_recent_events returns every event available from
\* every registered connector, those its monitor loop already put on
\* event_queue included; each returned event is tagged with the registration
\* name of its producer; the list is in registration order and, within one
\* connector, in production order.
C6_CollectReturnsAllAvailable ==
    [][lastOp' = "collect" =>
          (QueuedAreReturned /\ TaggedWithProducer /\ InRegistrationOrder)]_vars

\* the part of C6 the code keeps: tags and order
C6_TagsAndOrder ==
    [][lastOp' = "collect" => (TaggedWithProducer /\ InRegistrationOrder)]_vars

\* C7: when start_all_connectors has returned, connect() was called exactly
\* once on every registered connector, and a connector whose connect failed
\* is told apart, by what the manager holds, from one that connected.
C7_FailedConnectIsRecorded ==
    lastOp = "start_all" =>
        /\ \A n \in Range(registered) : calls[n] = 1
        /\ \A a, b \in Range(registered) :
               (outcome[a] = "failed" /\ outcome[b] = "ok")
                   => connectors[a] # connectors[b]

\* the part of C7 the code keeps: one connect() each, whatever the outcomes
C7_ConnectOnceEach ==
    lastOp = "start_all" =>
        \A n \in Range(registered) : calls[n] = 1 /\ outcome[n] \in {"ok", "failed"}

\* C8: a call of stop_all_connectors, from any state of the manager,
\* completes without error and leaves every registered connector stopped.
C8_StopAllSucceeds ==
    lastOp = "stop_all" =>
        /\ apiStatus = "success"
        /\ \A n \in Range(registered) : ~connectors[n].is_running

\* ------------------------------------------------------------------------
\* SimpleAnomalyDetector
\* ------------------------------------------------------------------------
\* Scores are kept in tenths: 4 is the float 0.4.  The products n * 0.4 the
\* code can form (0.0, 0.4, 0.8 and, above 1.0, 1.2..., 1.6) compare with the
\* literals 0.2, 0.4, 0.6 and 1.0 in binary floating point as the tenths do.
MaxRows == 2

\* len(rule_anomalies) * 0.4
RuleWeight == 4

\* min(1.0, rule_score)
ScoreCap == 10

HighThreshold == 6

MediumThreshold == 4

LowThreshold == 2

SuspiciousThreshold == 4

suspicious_countries == {"Russia", "China", "North Korea", "Unknown"}

CommonLocations == {"New York", "California", "Texas", "Florida", "Illinois"}

SensitiveWords == {"database", "customer", "entire", "backup", ".sql"}

\* str.lower() on the pieces file names are made of
Lower(piece) ==
    CASE piece = "Backup"   -> "backup"
      [] piece = "CUSTOMER" -> "customer"
      [] OTHER              -> piece

\* any(word in file_name.lower() for word in [...])
Sensitive_CaseSensitive(file_name) ==
    \E i \in 1..Len(file_name) : file_name[i] \in SensitiveWords
Sensitive(file_name) ==
    \E i \in 1..Len(file_name) : Lower(file_name[i]) \in SensitiveWords

Min(a, b) == IF a < b THEN a ELSE b

Users == {1}


\* A number as Python holds it: <<"int", n>>, <<"float", n>> (n.0) or
\* <<"nan", 0>>; <<"none", 0>> stands where a message has no number in it.
PyInt(n) == <<"int", n>>

PyFloat(n) == <<"float", n>>

NaN == <<"nan", 0>>

NoNumber == <<"none", 0>>

\* v > k for a Python number v: every comparison with nan is False
Gt(v, k) == v[1] # "nan" /\ v[2] > k

\* user_id in self.user_profiles: 1 and 1.0 are the same key, nan is no key
Known(user_id) == user_id[1] # "nan" /\ user_id[2] \in DOMAIN user_profiles

\* a row of a DataFrame read from a CSV file, as the rules and the profile
\* builder see it
DfRow(type, hour, location, size) ==
    [event_type |-> type, file_name |-> <<"report", ".txt">>,
     user_id |-> PyInt(1), location |-> location,
     timestamp |-> [hour |-> hour, parse |-> "ok"],
     country |-> "United States", source_ip |-> "internal",
     file_size_mb |-> size, action |-> "read"]

\* the rows of a training CSV, in the order of the file
TrainRows ==
    <<DfRow("login", 8, "Boston", NaN),
      DfRow("login", 20, "New York", NaN),
      DfRow("file_access", 12, "Boston", PyFloat(60))>>

\* the distinct user ids of the column, nan among them
UserIds(df) == {df[k].user_id : k \in 1..Len(df)}

\* df[df['user_id'] == user_id]: nan equals nothing, 1 equals 1.0
RowsOf(df, user_id) ==
    {k \in 1..Len(df) : user_id[1] # "nan" /\ df[k].user_id[1] # "nan"
                        /\ df[k].user_id[2] = user_id[2]}

LoginRowsOf(df, user_id) == {k \in RowsOf(df, user_id) : df[k].event_type = "login"}

FileRowsOf(df, user_id) ==
    {k \in RowsOf(df, user_id) : df[k].event_type = "file_access"}

SetMin(S) == CHOOSE x \in S : \A y \in S : x <= y

SetMax(S) == CHOOSE x \in S : \A y \in S : x >= y

RECURSIVE SetSum(_)
SetSum(S) == IF S = {} THEN 0 ELSE LET x == CHOOSE y \in S : TRUE
                                   IN  x[2] + SetSum(S \ {x})

\* a quotient a / b as Python's float division leaves it; <<0, 0>> is nan
Quot(a, b) == <<a, b>>

\* the hours of the rows rows whose timestamp is not NaT, each with its row
HoursOf(df, rows) ==
    {<<k, df[k].timestamp.hour>> : k \in {j \in rows : df[j].timestamp.parse = "ok"}}

\* the sizes of the rows rows that have one, each with its row
SizesOf(df, rows) ==
    {<<k, df[k].file_size_mb[2]>> : k \in {j \in rows : df[j].file_size_mb[1] # "nan"}}

\* Series.mean(): the missing values are skipped, the mean of none is nan
Mean(S) == Quot(SetSum(S), Cardinality(S))

\* create_user_profiles raises: int(nan) for a missing user_id, or for the
\* min of login hours that are all NaT; pd.to_datetime for a timestamp that
\* does not parse
ProfilesRaise(df) ==
    \/ NaN \in UserIds(df)
    \/ \E k \in 1..Len(df) : df[k].timestamp.parse = "bad"
    \/ \E u \in UserIds(df) :
           LoginRowsOf(df, u) # {} /\ HoursOf(df, LoginRowsOf(df, u)) = {}

\* the profile of one user (name left out)
UserProfile_NoThirty(df, user_id) ==
    LET login_data == LoginRowsOf(df, user_id)
        file_data  == FileRowsOf(df, user_id)
        hours      == HoursOf(df, login_data)
        sizes      == SizesOf(df, file_data)
    IN  [user_id |-> user_id[2],
         normal_login_hours |->
             [min |-> IF login_data # {} THEN SetMin({h[2] : h \in hours}) ELSE 9,
              max |-> IF login_data # {} THEN SetMax({h[2] : h \in hours}) ELSE 17,
              avg |-> IF login_data # {} THEN Mean(hours) ELSE Quot(13, 1)],
         normal_countries |-> {df[k].country : k \in RowsOf(df, user_id)},
         normal_locations |-> {df[k].location : k \in RowsOf(df, user_id)},
         avg_files_per_day |->
             IF file_data # {} THEN Quot(Cardinality(file_data), Cardinality(file_data))
             ELSE Quot(0, 1),
         typical_file_sizes |->
             [avg |-> IF file_data # {} THEN Mean(sizes) ELSE Quot(0, 1),
              max |-> IF file_data # {} /\ sizes # {}
                      THEN PyFloat(SetMax({x[2] : x \in sizes}))
                      ELSE IF file_data # {} THEN NaN ELSE PyInt(0)]]
UserProfile(df, user_id) ==
    LET login_data == LoginRowsOf(df, user_id)
        file_data  == FileRowsOf(df, user_id)
        hours      == HoursOf(df, login_data)
        sizes      == SizesOf(df, file_data)
    IN  [user_id |-> user_id[2],
         normal_login_hours |->
             [min |-> IF login_data # {} THEN SetMin({h[2] : h \in hours}) ELSE 9,
              max |-> IF login_data # {} THEN SetMax({h[2] : h \in hours}) ELSE 17,
              avg |-> IF login_data # {} THEN Mean(hours) ELSE Quot(13, 1)],
         normal_countries |-> {df[k].country : k \in RowsOf(df, user_id)},
         normal_locations |-> {df[k].location : k \in RowsOf(df, user_id)},
         avg_files_per_day |->
             IF file_data # {} THEN Quot(Cardinality(file_data), 30)
             ELSE Quot(0, 1),
         typical_file_sizes |->
             [avg |-> IF file_data # {} THEN Mean(sizes) ELSE Quot(0, 1),
              max |-> IF file_data # {} /\ sizes # {}
                      THEN PyFloat(SetMax({x[2] : x \in sizes}))
                      ELSE IF file_data # {} THEN NaN ELSE PyInt(0)]]

\* create_user_profiles(df), when it does not raise: one profile for each
\* distinct user_id
CreateUserProfiles(df) ==
    [user_id \in {u[2] : u \in UserIds(df)} |->
        UserProfile(df, CHOOSE u \in UserIds(df) : u[2] = user_id)]

\* an f-string message: the rule's text and the number formatted into it
\* (500 prints as "500", 500.0 as "500.0"); strings formatted into a message
\* are copies of the event's fields and are left out
Msg(rule, number) == [rule |-> rule, number |-> number]

\* the time rule: at most one of the two messages
TimeAnomalies(hour, profile) ==
    LET normal_start == profile.normal_login_hours.min
        normal_end   == profile.normal_login_hours.max
    IN  IF hour < 6 \/ hour > 22
        THEN <<Msg("Very unusual login time", PyInt(hour))>>
        ELSE IF hour < normal_start - 1 \/ hour > normal_end + 1
             THEN <<Msg("Outside normal hours", PyInt(hour))>>
             ELSE <<>>

\* the try block for a login event.  A timestamp parses to an hour, to "NaT"
\* (a missing value: every comparison with its hour is False) or not at all
\* ("bad": the parse raises); source_ip None makes startswith raise after
\* the earlier appends
LoginAnomalies(event, profile) ==
    IF event.timestamp.parse = "bad"
    THEN <<Msg("Error parsing timestamp", NoNumber)>>
    ELSE LET time     == IF event.timestamp.parse = "NaT" THEN <<>>
                         ELSE TimeAnomalies(event.timestamp.hour, profile)
             country  == IF event.country \in suspicious_countries
                         THEN <<Msg("Login from suspicious country", NoNumber)>>
                         ELSE <<>>
             location == IF event.location \notin profile.normal_locations
                            /\ event.location \notin CommonLocations
                         THEN <<Msg("Login from unusual location", NoNumber)>>
                         ELSE <<>>
             ip       == CASE event.source_ip = "None" ->
                                  <<Msg("Error parsing timestamp", NoNumber)>>
                           [] event.source_ip = "external" ->
                                  <<Msg("Login from external IP", NoNumber)>>
                           [] OTHER -> <<>>
         IN  time \o country \o location \o ip

FileAnomalies(event) ==
    (IF Gt(event.file_size_mb, 100)
     THEN <<Msg("Large file access", event.file_size_mb)>> ELSE <<>>)
    \o (IF event.action = "download" /\ Gt(event.file_size_mb, 50)
        THEN <<Msg("File download", event.file_size_mb)>> ELSE <<>>)
    \o (IF Sensitive(event.file_name)
        THEN <<Msg("Sensitive file access", NoNumber)>> ELSE <<>>)

\* detect_rule_based_anomalies(event)
DetectRuleBasedAnomalies(event) ==
    IF ~Known(event.user_id)
    THEN <<Msg("Unknown user", NoNumber)>>
    ELSE CASE event.event_type = "login" ->
                  LoginAnomalies(event, user_profiles[event.user_id[2]])
           [] event.event_type = "file_access" -> FileAnomalies(event)
           [] OTHER -> <<>>

\* a file_name that is not a string (a missing CSV cell is a float) makes
\* file_name.lower() raise out of analyze_event
Raises_AnyUser(event) ==
    /\ event.event_type = "file_access"
    /\ event.file_name = <<"NaN">>
Raises(event) ==
    /\ Known(event.user_id)
    /\ event.event_type = "file_access"
    /\ event.file_name = <<"NaN">>

\* rule_score = len(rule_anomalies) * 0.4
RuleScore_Fifth(n) == n * LowThreshold
RuleScore(n) == n * RuleWeight

OverallScore_NoClamp(rule_score) == rule_score
OverallScore(rule_score) == Min(ScoreCap, rule_score)

AlertLevel_Strict(overall_score) ==
    IF overall_score > HighThreshold THEN "HIGH"
    ELSE IF overall_score > MediumThreshold THEN "MEDIUM"
    ELSE IF overall_score > LowThreshold THEN "LOW"
    ELSE "NORMAL"
AlertLevel(overall_score) ==
    IF overall_score >= HighThreshold THEN "HIGH"
    ELSE IF overall_score >= MediumThreshold THEN "MEDIUM"
    ELSE IF overall_score >= LowThreshold THEN "LOW"
    ELSE "NORMAL"

IsSuspicious(overall_score) == overall_score >= SuspiciousThreshold

\* the dict analyze_event returns (the wall clock of timestamp_analyzed
\* left out)
AnalyzeEvent(event) ==
    LET rule_anomalies == DetectRuleBasedAnomalies(event)
        overall_score  == OverallScore(RuleScore(Len(rule_anomalies)))
    IN  [status |-> "returned",
         event |-> event,
         anomalies |-> rule_anomalies,
         overall_risk_score |-> overall_score,
         alert_level |-> AlertLevel(overall_score),
         is_suspicious |-> IsSuspicious(overall_score)]

LoginEvents ==
    [user_id : {PyInt(u) : u \in Users}, event_type : {"login"},
     timestamp : [parse : {"ok"}, hour : {3, 10, 23}]
                 \cup [parse : {"NaT", "bad"}, hour : {0}],
     country : {"United States", "Russia"},
     location : {"Boston", "Texas", "Moscow"},
     source_ip : {"internal", "external", "None"}]

FileEvents ==
    [user_id : {PyInt(u) : u \in Users}, event_type : {"file_access"},
     file_size_mb : {PyInt(10), PyInt(60), PyInt(500)},
     action : {"read", "download"},
     file_name : {<<"report", ".txt">>, <<"Backup", ".zip">>, <<"backup", ".sql">>,
                  <<"NaN">>}]

OtherEvents == [user_id : {PyInt(u) : u \in Users}, event_type : {"logout"}]

Events == LoginEvents \cup FileEvents \cup OtherEvents

\* the training files of at most n rows: rows of TrainRows from row i on, a
\* row as often as wanted, in the order of TrainRows
RECURSIVE BatchesFrom(_, _)
BatchesFrom(i, n) ==
    IF n = 0 \/ i > Len(TrainRows) THEN {<<>>}
    ELSE BatchesFrom(i + 1, n)
         \cup {<<TrainRows[i]>> \o b : b \in BatchesFrom(i, n - 1)}

Batches(n) == BatchesFrom(1, n)

\* train(csv_file), df being what pd.read_csv made of the file: an
\* exception of create_user_profiles leaves self.user_profiles as it was
Train(df) ==
    /\ user_profiles' = IF ProfilesRaise(df) THEN user_profiles
                        ELSE CreateUserProfiles(df)
    /\ trained' = [status |-> IF ProfilesRaise(df) THEN "raised" ELSE "returned",
                   df |-> df]
    /\ UNCHANGED <<result, prev, connectors, fileVars, runVars, mgrVars, batchVars, swapVars,
                   stdVars>>

\* the summary of a returned result the caller keeps for the next call
Summary(r) ==
    IF r.status = "returned"
    THEN <<[n |-> Len(r.anomalies), score |-> r.overall_risk_score]>>
    ELSE prev

\* analyze_event(event)
Analyze(event) ==
    /\ result' = IF Raises(event) THEN [status |-> "raised", event |-> event]
                  ELSE AnalyzeEvent(event)
    /\ prev' = Summary(result)
    /\ UNCHANGED <<user_profiles, trained, connectors, fileVars, runVars, mgrVars,
                   batchVars, swapVars, stdVars>>

InitScore ==
    /\ connectors = EmptyDict
    /\ IdleScore
    /\ IdleFile
    /\ IdleRun
    /\ IdleMgr
    /\ IdleBatch
    /\ IdleSwap
    /\ IdleStd

NextScore ==
    \/ \E df \in Batches(MaxRows) : Train(df)
    \/ \E event \in Events : Analyze(event)

SpecScore == InitScore /\ [][NextScore]_vars

\* C9: whenever analyze_event returns, overall_risk_score is
\* min(1.0, 0.4 x number of anomalies); so it lies in [0,1], it is 1.0 for
\* three or more anomalies, and of two results the one with no fewer
\* anomalies has no smaller score.
C9_ScoreIsClampedCount ==
    result.status = "returned" =>
        /\ result.overall_risk_score = Min(10, 4 * Len(result.anomalies))
        /\ result.overall_risk_score \in 0..10
        /\ Len(result.anomalies) >= 3 => result.overall_risk_score = 10
        /\ \A k \in 1..Len(prev) :
               /\ prev[k].n <= Len(result.anomalies)
                      => prev[k].score <= result.overall_risk_score
               /\ prev[k].n >= Len(result.anomalies)
                      => prev[k].score >= result.overall_risk_score

C9_Witness ==
    /\ result.status = "returned"
    /\ Len(result.anomalies) = 4
    /\ result.overall_risk_score = 10
    /\ prev # <<>>
    /\ prev[1].n = 2
    /\ prev[1].score = 8

\* C10: in every result of analyze_event, alert_level is HIGH iff the score
\* is at least 0.6, MEDIUM iff it is in [0.4, 0.6), LOW iff it is in
\* [0.2, 0.4), NORMAL iff it is below 0.2; is_suspicious iff it is at
\* least 0.4.
C10_AlertLevelThresholds ==
    result.status = "returned" =>
        LET score == result.overall_risk_score
        IN  /\ result.alert_level = "HIGH" <=> score >= 6
            /\ result.alert_level = "MEDIUM" <=> (4 <= score /\ score < 6)
            /\ result.alert_level = "LOW" <=> (2 <= score /\ score < 4)
            /\ result.alert_level = "NORMAL" <=> score < 2
            /\ result.is_suspicious <=> score >= 4

C10_Witness ==
    /\ result.status = "returned"
    /\ result.alert_level = "MEDIUM"
    /\ result.is_suspicious
    /\ result.overall_risk_score = 4
    /\ Len(result.anomalies) = 1
    /\ result.anomalies[1].rule = "Outside normal hours"

\* ------------------------------------------------------------------------
\* Properties of the rules
\* ------------------------------------------------------------------------
\* a step in which a call of analyze_event returns; the profile table is the
\* same before and after it
AnalyzeReturns ==
    /\ <<result, prev>>' # <<result, prev>>
    /\ result'.status = "returned"

\* the rules a list of anomalies names, in order
Rules(anomalies) == [k \in 1..Len(anomalies) |-> anomalies[k].rule]

\* the profile table has a profile for the user of event e
Profiled(e) == e.user_id[1] # "nan" /\ e.user_id[2] \in DOMAIN user_profiles

ProfileOf(e) == user_profiles[e.user_id[2]]

LoginRuleLabels ==
    {"Very unusual login time", "Outside normal hours",
     "Login from suspicious country", "Login from unusual location",
     "Login from external IP"}

\* the rule hits (a)-(d) for a login event e of a user with profile p, each
\* decided on its own
LoginRuleHits(e, p) ==
    (IF e.timestamp.parse # "ok" THEN <<>>
     ELSE IF e.timestamp.hour < 6 \/ e.timestamp.hour > 22
          THEN <<"Very unusual login time">>
          ELSE IF e.timestamp.hour < p.normal_login_hours.min - 1
                  \/ e.timestamp.hour > p.normal_login_hours.max + 1
               THEN <<"Outside normal hours">>
               ELSE <<>>)
    \o (IF e.country \in {"Russia", "China", "North Korea", "Unknown"}
        THEN <<"Login from suspicious country">> ELSE <<>>)
    \o (IF e.location \notin p.normal_locations
           /\ e.location \notin {"New York", "California", "Texas", "Florida", "Illinois"}
        THEN <<"Login from unusual location">> ELSE <<>>)
    \o (IF e.source_ip # "internal"
        THEN <<"Login from external IP">> ELSE <<>>)

\* the two scenarios: hour 3 from Russia and an external address against
\* hours 9-17; hour 10 from a known country, a known location and the
\* private subnet
LoginScenarios(e, p, r) ==
    /\ (/\ e.timestamp = [parse |-> "ok", hour |-> 3]
        /\ e.country = "Russia"
        /\ e.source_ip = "external"
        /\ p.normal_login_hours = [min |-> 9, max |-> 17])
       => /\ {"Very unusual login time", "Login from suspicious country",
              "Login from external IP"} \subseteq Range(Rules(r.anomalies))
          /\ r.overall_risk_score = 10
          /\ r.alert_level = "HIGH"
          /\ r.is_suspicious
    /\ (/\ e.timestamp = [hour |-> 10, parse |-> "ok"]
        /\ e.country = "United States"
        /\ e.location \in p.normal_locations
        /\ e.source_ip = "internal"
        /\ p.normal_login_hours = [min |-> 9, max |-> 17])
       => /\ r.anomalies = <<>>
          /\ r.alert_level = "NORMAL"
          /\ ~r.is_suspicious

LoginRulesHold(e, p, r) ==
    IF e.event_type = "login"
    THEN Rules(r.anomalies) = LoginRuleHits(e, p) /\ LoginScenarios(e, p, r)
    ELSE \A k \in 1..Len(r.anomalies) : r.anomalies[k].rule \notin LoginRuleLabels

\* C11: for a login event of a profiled user the anomalies are exactly the
\* hits of the time, country, location and address rules, each counted
\* whether or not the others fire; an event that is not a login hits none of
\* them; the hour-3 and hour-10 scenarios come out HIGH and NORMAL.
C11_LoginRulesIndependent ==
    [][(AnalyzeReturns /\ Profiled(result'.event))
          => LoginRulesHold(result'.event,
                            ProfileOf(result'.event), result')]_vars

\* the part of C11 the code keeps: logins whose timestamp parses (or is a
\* missing value) and whose source_ip is a string
C11_WellFormedLogins ==
    [][(/\ AnalyzeReturns
        /\ Profiled(result'.event)
        /\ result'.event.event_type = "login" =>
               (result'.event.timestamp.parse # "bad"
                /\ result'.event.source_ip # "None"))
          => LoginRulesHold(result'.event,
                            ProfileOf(result'.event), result')]_vars

FileRuleLabels == {"Large file access", "File download", "Sensitive file access"}

\* the file name has one of the five keywords in it, in any letter case
HasKeyword(file_name) ==
    \E i \in 1..Len(file_name) :
        file_name[i] \in {"database", "customer", "entire", "backup", ".sql",
                          "Backup", "CUSTOMER"}

FileRuleHits(e) ==
    (IF e.file_size_mb[2] > 100 THEN <<"Large file access">> ELSE <<>>)
    \o (IF e.action = "download" /\ e.file_size_mb[2] > 50
        THEN <<"File download">> ELSE <<>>)
    \o (IF HasKeyword(e.file_name) THEN <<"Sensitive file access">> ELSE <<>>)

FileRulesHold(e, r) ==
    IF e.event_type = "file_access"
    THEN /\ Rules(r.anomalies) = FileRuleHits(e)
         /\ (e.file_size_mb[2] = 500 /\ e.action = "download"
             /\ e.file_name = <<"backup", ".sql">>)
                => (Len(r.anomalies) = 3 /\ r.alert_level = "HIGH")
    ELSE \A k \in 1..Len(r.anomalies) : r.anomalies[k].rule \notin FileRuleLabels

\* C12: for a file_access event of a profiled user the anomalies are exactly:
\* one for a size above 100, one for a download above 50, one for a file name
\* with any of the keywords in it (in any case, however many match); an event
\* of another type hits none of them; a 500 MB download of backup.sql has
\* three anomalies and level HIGH.
C12_FileRules ==
    [][(AnalyzeReturns /\ Profiled(result'.event))
          => FileRulesHold(result'.event, result')]_vars

C12_Witness ==
    /\ result.status = "returned"
    /\ result.event.event_type = "file_access"
    /\ result.event.file_size_mb = <<"int", 500>>
    /\ result.event.action = "download"
    /\ result.event.file_name = <<"backup", ".sql">>
    /\ Rules(result.anomalies)
           = <<"Large file access", "File download", "Sensitive file access">>
    /\ result.alert_level = "HIGH"

\* a step in which a call of analyze_event ends, by return or by exception
AnalyzeEnds ==
    /\ <<result, prev>>' # <<result, prev>>
    /\ result'.status \in {"returned", "raised"}

\* C14: when the event's user_id is no key of the profile table,
\* analyze_event returns (it does not raise) exactly the one anomaly
\* 'Unknown user', whatever the type and content of the event, with score
\* 0.4, level MEDIUM and is_suspicious true.
C14_UnknownUser ==
    [][(AnalyzeEnds /\ ~Profiled(result'.event))
          => /\ result'.status = "returned"
             /\ Rules(result'.anomalies) = <<"Unknown user">>
             /\ result'.overall_risk_score = 4
             /\ result'.alert_level = "MEDIUM"
             /\ result'.is_suspicious]_vars

C14_Witness ==
    /\ result.status = "returned"
    /\ result.event.event_type = "file_access"
    /\ result.event.file_name = <<"NaN">>
    /\ result.event.file_size_mb = <<"int", 500>>
    /\ Rules(result.anomalies) = <<"Unknown user">>
    /\ result.alert_level = "MEDIUM"

\* ------------------------------------------------------------------------
\* batch_analyze over a CSV file
\* ------------------------------------------------------------------------
MaxBatch == 2

\* A CSV row, cell by cell.  A cell that may be empty is <<>> when it is
\* and holds its content otherwise; a timestamp cell holds what the text
\* parses to.
LoginRow(user, ts, ip) ==
    [event_type |-> "login", file_name |-> <<>>, user_id |-> user,
     location |-> "Boston", timestamp |-> ts, country |-> "United States",
     source_ip |-> ip, file_size_mb |-> <<>>, action |-> ""]

FileRow(user, size, name) ==
    [event_type |-> "file_access", file_name |-> name, user_id |-> user,
     location |-> "Boston", timestamp |-> <<[hour |-> 10, parse |-> "ok"]>>,
     country |-> "United States", source_ip |-> <<"internal">>,
     file_size_mb |-> size, action |-> "download"]

CsvRows ==
    {LoginRow(<<1>>, <<[hour |-> 10, parse |-> "ok"]>>, <<"internal">>),
     LoginRow(<<1>>, <<[hour |-> 0, parse |-> "bad"]>>, <<>>),
     LoginRow(<<>>, <<[hour |-> 10, parse |-> "ok"]>>, <<"internal">>),
     FileRow(<<1>>, <<500>>, <<"backup", ".sql">>),
     FileRow(<<1>>, <<60>>, <<>>),
     FileRow(<<1>>, <<>>, <<"report", ".txt">>)}

\* pd.read_csv on a column of whole numbers: int64 when every cell is
\* filled, float64 with nan for the empty cells when one is not
NumberColumn(file, column) ==
    LET has_empty == \E k \in 1..Len(file) : file[k][column] = <<>>
    IN  [k \in 1..Len(file) |->
            IF file[k][column] = <<>> THEN NaN
            ELSE IF has_empty THEN PyFloat(file[k][column][1])
                 ELSE PyInt(file[k][column][1])]

\* str(event['timestamp']) parsed: an empty cell is nan, the text 'nan'
\* parses to NaT
TimestampOf(cell) ==
    IF cell = <<>> THEN [hour |-> 0, parse |-> "NaT"] ELSE cell[1]

\* df = pd.read_csv(csv_file); the dicts of df.iterrows(): event.to_dict()
ReadCsv(file) ==
    [k \in 1..Len(file) |->
        [event_type   |-> file[k].event_type,
         file_name    |-> IF file[k].file_name = <<>> THEN <<"NaN">>
                          ELSE file[k].file_name,
         user_id      |-> NumberColumn(file, "user_id")[k],
         location     |-> file[k].location,
         timestamp    |-> TimestampOf(file[k].timestamp),
         country      |-> file[k].country,
         source_ip    |-> IF file[k].source_ip = <<>> THEN "None"
                          ELSE file[k].source_ip[1],
         file_size_mb |-> NumberColumn(file, "file_size_mb")[k],
         action       |-> file[k].action]]

\* all CSV files of at most n rows
RECURSIVE CsvFiles(_)
CsvFiles(n) ==
    IF n = 0 THEN {<<>>}
    ELSE CsvFiles(n - 1) \cup {Append(f, r) : f \in CsvFiles(n - 1), r \in CsvRows}

\* batch_analyze(csv_file): an exception of analyze_event leaves the loop and
\* the function, and the list built so far is lost
BatchResults(df) ==
    IF \E k \in 1..Len(df) : Raises(df[k])
    THEN [status |-> "raised"]
    ELSE [status |-> "returned", results |-> [k \in 1..Len(df) |-> AnalyzeEvent(df[k])]]

BatchAnalyze(file) ==
    /\ csv' = file
    /\ run' = BatchResults(ReadCsv(file))
    /\ UNCHANGED <<seen, scoreVars, connectors, fileVars, runVars, mgrVars, swapVars, stdVars>>

\* the caller keeps one row of the file with the result it was given
Remember(i) ==
    /\ run.status = "returned"
    /\ i \in 1..Len(csv)
    /\ seen' = <<[row |-> csv[i], result |-> run.results[i]]>>
    /\ UNCHANGED <<csv, run, scoreVars, connectors, fileVars, runVars, mgrVars, swapVars,
                   stdVars>>

\* the detector was trained before the files arrive
InitBatch ==
    /\ connectors = EmptyDict
    /\ \E df \in Batches(MaxRows) :
           /\ user_profiles = CreateUserProfiles(df)
           /\ trained = [status |-> "returned", df |-> df]
    /\ result = NoResult
    /\ prev = <<>>
    /\ IdleBatch
    /\ IdleFile
    /\ IdleRun
    /\ IdleMgr
    /\ IdleSwap
    /\ IdleStd

NextBatch ==
    \/ \E file \in CsvFiles(MaxBatch) : BatchAnalyze(file)
    \/ \E i \in 1..MaxBatch : Remember(i)

SpecBatch == InitBatch /\ [][NextBatch]_vars

\* what analyze_event derives from the event and the table
Derived(r) ==
    [anomalies |-> r.anomalies, overall_risk_score |-> r.overall_risk_score,
     alert_level |-> r.alert_level, is_suspicious |-> r.is_suspicious]

\* C13: analyze_event is a function of the event and the profile table alone:
\* the anomalies, score, level and flag batch_analyze gives a row are those
\* it gave the same row in any other file, whatever the other rows of the
\* two files; and scoring leaves the profile table as it was.
C13_ScoreIsPure ==
    /\ run.status = "returned" =>
           \A i \in 1..Len(csv), k \in 1..Len(seen) :
               csv[i] = seen[k].row => Derived(run.results[i]) = Derived(seen[k].result)
    /\ user_profiles = CreateUserProfiles(trained.df)

\* the part of C13 the code keeps: the same event dict gets the same result
C13_SameEventSameResult ==
    run.status = "returned" =>
        \A i \in 1..Len(csv), k \in 1..Len(seen) :
            run.results[i].event = seen[k].result.event
                => run.results[i] = seen[k].result

\* ------------------------------------------------------------------------
\* train over a CSV file
\* ------------------------------------------------------------------------
MaxTrainRows == 2

\* rows of training files: two users, and rows with a cell missing or a
\* timestamp that does not parse
TrainCsvRows ==
    {LoginRow(<<1>>, <<[hour |-> 8, parse |-> "ok"]>>, <<"internal">>),
     LoginRow(<<1>>, <<[hour |-> 20, parse |-> "ok"]>>, <<"internal">>),
     FileRow(<<2>>, <<60>>, <<"report", ".txt">>),
     FileRow(<<2>>, <<500>>, <<"backup", ".sql">>),
     LoginRow(<<>>, <<[hour |-> 10, parse |-> "ok"]>>, <<"internal">>),
     LoginRow(<<1>>, <<[hour |-> 0, parse |-> "bad"]>>, <<"internal">>)}

\* all training files of at most n rows (the header line is always there)
RECURSIVE TrainFiles(_)
TrainFiles(n) ==
    IF n = 0 THEN {<<>>}
    ELSE TrainFiles(n - 1)
         \cup {Append(f, r) : f \in TrainFiles(n - 1), r \in TrainCsvRows}

NextTrain ==
    \E file \in TrainFiles(MaxTrainRows) : Train(ReadCsv(file))

InitTrain ==
    /\ connectors = EmptyDict
    /\ IdleScore
    /\ IdleBatch
    /\ IdleFile
    /\ IdleRun
    /\ IdleMgr
    /\ IdleSwap
    /\ IdleStd

SpecTrain == InitTrain /\ [][NextTrain]_vars

\* the rows of df of user u, by event type
TypedRows(df, u, type) ==
    {k \in 1..Len(df) : df[k].user_id[1] # "nan" /\ df[k].user_id[2] = u
                        /\ df[k].event_type = type}

\* every row has a user_id and every login row a timestamp that parses
WellFormed(df) ==
    \A k \in 1..Len(df) : df[k].user_id[1] # "nan" /\ df[k].timestamp.parse = "ok"

RECURSIVE SumOver(_, _, _)
SumOver(df, rows, column) ==
    IF rows = {} THEN 0
    ELSE LET k == CHOOSE j \in rows : TRUE
         IN  (IF column = "hour" THEN df[k].timestamp.hour ELSE df[k].file_size_mb[2])
             + SumOver(df, rows \ {k}, column)

\* the profile the claim describes for user u of df
LoginPartAsClaimed(df, u, p) ==
    LET logins == TypedRows(df, u, "login")
    IN  IF logins = {}
        THEN p.normal_login_hours = [min |-> 9, max |-> 17, avg |-> <<13, 1>>]
        ELSE /\ \E k \in logins : p.normal_login_hours.min = df[k].timestamp.hour
             /\ \A k \in logins : p.normal_login_hours.min <= df[k].timestamp.hour
             /\ \E k \in logins : p.normal_login_hours.max = df[k].timestamp.hour
             /\ \A k \in logins : p.normal_login_hours.max >= df[k].timestamp.hour
             /\ p.normal_login_hours.avg
                    = <<SumOver(df, logins, "hour"), Cardinality(logins)>>

FilePartAsClaimed(df, u, p) ==
    LET files == TypedRows(df, u, "file_access")
        sized == {k \in files : df[k].file_size_mb[1] # "nan"}
    IN  IF files = {}
        THEN /\ p.avg_files_per_day = <<0, 1>>
             /\ p.typical_file_sizes = [avg |-> <<0, 1>>, max |-> <<"int", 0>>]
        ELSE /\ p.avg_files_per_day = <<Cardinality(files), 30>>
             /\ p.typical_file_sizes.avg
                    = <<SumOver(df, sized, "size"), Cardinality(sized)>>
             /\ sized # {} =>
                    /\ \E k \in sized : p.typical_file_sizes.max[2] = df[k].file_size_mb[2]
                    /\ \A k \in sized : p.typical_file_sizes.max[2] >= df[k].file_size_mb[2]

\* C15: create_user_profiles gives exactly one profile for each distinct
\* user_id of the batch; login hours min/max/avg are 9/17/13 for a user
\* without login rows and the min/max/mean of its login hours otherwise;
\* avg_files_per_day and the size avg/max are 0 for a user without
\* file_access rows and count/30 and the mean/max size otherwise; and a
\* batch of well-formed rows, the empty one included, never makes it raise.
C15_ProfilesAsDescribed ==
    /\ WellFormed(trained.df) => trained.status # "raised"
    /\ (trained.status = "returned" /\ WellFormed(trained.df)) =>
           /\ DOMAIN user_profiles = {trained.df[k].user_id[2] : k \in 1..Len(trained.df)}
           /\ \A u \in DOMAIN user_profiles :
                  /\ user_profiles[u].user_id = u
                  /\ LoginPartAsClaimed(trained.df, u, user_profiles[u])
                  /\ FilePartAsClaimed(trained.df, u, user_profiles[u])

C15_Witness ==
    /\ trained.status = "returned"
    /\ Len(trained.df) = 2
    /\ DOMAIN user_profiles = {1, 2}
    /\ user_profiles[1].normal_login_hours = [min |-> 8, max |-> 8, avg |-> <<8, 1>>]
    /\ user_profiles[1].avg_files_per_day = <<0, 1>>
    /\ user_profiles[2].normal_login_hours = [min |-> 9, max |-> 17, avg |-> <<13, 1>>]
    /\ user_profiles[2].avg_files_per_day = <<1, 30>>

C15_WitnessEmpty ==
    trained.status = "returned" /\ trained.df = <<>> /\ user_profiles = EmptyDict

\* ------------------------------------------------------------------------
\* train and analyze_event on two threads of the API server
\* ------------------------------------------------------------------------
MaxSwapRows == 2

\* rows of the training files: a login of user 1, a file access of user 2
SwapRows ==
    {LoginRow(<<1>>, <<[hour |-> 8, parse |-> "ok"]>>, <<"internal">>),
     FileRow(<<2>>, <<60>>, <<"report", ".txt">>)}

RECURSIVE SwapFiles(_)
SwapFiles(n) ==
    IF n = 0 THEN {<<>>}
    ELSE SwapFiles(n - 1)
         \cup {Append(f, r) : f \in SwapFiles(n - 1), r \in SwapRows}

\* the events scored meanwhile: a login of user 1 at 3 o'clock, a download
\* of backup.sql by user 2
ScorerEvents ==
    {ReadCsv(<<r>>)[1] :
        r \in {LoginRow(<<1>>, <<[hour |-> 3, parse |-> "ok"]>>, <<"internal">>),
               FileRow(<<2>>, <<500>>, <<"backup", ".sql">>)}}

\* train: df is read and the local dict profiles is empty
TrainBegin(file) ==
    /\ building = <<>>
    /\ building' = [df |-> ReadCsv(file), profiles |-> EmptyDict]
    /\ UNCHANGED <<scorer, connectors, fileVars, runVars, mgrVars, scoreVars,
                   batchVars, stdVars>>

\* create_user_profiles: one turn of the loop over the user ids,
\* profiles[user_id] = {...}
TrainProfile ==
    /\ building # <<>>
    /\ \E u \in UserIds(building.df) :
          /\ u[2] \notin DOMAIN building.profiles
          /\ building' = [building EXCEPT !.profiles =
                             DictPut(@, u[2], UserProfile(building.df, u))]
    /\ UNCHANGED <<scorer, connectors, fileVars, runVars, mgrVars, scoreVars,
                   batchVars, stdVars>>

\* return profiles, and self.user_profiles = ... in train: one assignment of
\* the finished dict
TrainSwap ==
    /\ building # <<>>
    /\ DOMAIN building.profiles = {u[2] : u \in UserIds(building.df)}
    /\ user_profiles' = building.profiles
    /\ trained' = [status |-> "returned", df |-> building.df]
    /\ building' = <<>>
    /\ UNCHANGED <<result, prev, scorer, connectors, fileVars, runVars, mgrVars,
                   batchVars, stdVars>>

\* what analyze_event makes of event when nothing happens meanwhile
Outcome(event) ==
    IF Raises(event) THEN [status |-> "raised", event |-> event]
    ELSE AnalyzeEvent(event)

\* analyze_event up to the test user_id not in self.user_profiles: an
\* unknown user is answered at once
ScoreTest(event) ==
    /\ scorer.pc = "idle"
    /\ IF ~Known(event.user_id)
       THEN /\ result' = AnalyzeEvent(event)
            /\ UNCHANGED scorer
       ELSE /\ scorer' = [pc |-> "lookup", event |-> event, first |-> Outcome(event)]
            /\ UNCHANGED result
    /\ UNCHANGED <<user_profiles, prev, trained, building, connectors, fileVars,
                   runVars, mgrVars, batchVars, stdVars>>

\* profile = self.user_profiles[user_id], a second read of the attribute,
\* and the rest of analyze_event: a user the table no longer holds is a
\* KeyError
ScoreLookup ==
    /\ scorer.pc = "lookup"
    /\ result' = IF ~Known(scorer.event.user_id)
                 THEN [status |-> "raised", event |-> scorer.event,
                       error |-> "KeyError"]
                 ELSE Outcome(scorer.event)
    /\ scorer' = [pc |-> "idle"]
    /\ UNCHANGED <<user_profiles, prev, trained, building, connectors, fileVars,
                   runVars, mgrVars, batchVars, stdVars>>

NextSwap ==
    \/ \E file \in SwapFiles(MaxSwapRows) : TrainBegin(file)
    \/ TrainProfile
    \/ TrainSwap
    \/ \E event \in ScorerEvents : ScoreTest(event)
    \/ ScoreLookup

InitSwap ==
    /\ connectors = EmptyDict
    /\ IdleScore
    /\ IdleBatch
    /\ IdleFile
    /\ IdleRun
    /\ IdleMgr
    /\ IdleSwap
    /\ IdleStd

SpecSwap == InitSwap /\ [][NextSwap]_vars

\* C16: a scorer call running concurrently with train observes either the
\* complete old table or the complete new table: what the call returns is
\* what the table it first read, or the table in force when it ends, makes
\* of its event.
C16_ScorerSeesOneTable ==
    [][scorer.pc = "lookup" /\ scorer'.pc = "idle"
           => result' \in {scorer.first, Outcome(scorer.event)}]_vars

\* the table in force is the table of the most recent training batch, whole
C16_TableIsLastBatch ==
    trained.status = "returned" => user_profiles = CreateUserProfiles(trained.df)

\* it is replaced in one assignment: no step but the assignment changes it,
\* and the assignment puts a finished table there
C16_SingleSwap ==
    [][user_profiles' # user_profiles
           => /\ building # <<>>
              /\ user_profiles' = CreateUserProfiles(building.df)]_vars

\* a train call has built a part of a table of two users
C16_HalfBuilt ==
    /\ building # <<>>
    /\ Cardinality(DOMAIN building.profiles) = 1
    /\ Cardinality(UserIds(building.df)) = 2

\* ------------------------------------------------------------------------
\* Properties of the batch operations over files with bad rows
\* ------------------------------------------------------------------------

\* C17: batch_analyze over N rows returns exactly N results in row order,
\* whatever cells the rows lack; a bad row never raises out of it.
C17_BatchReturnsAllRows ==
    csv # <<>> =>
        /\ run.status = "returned"
        /\ Len(run.results) = Len(csv)
        /\ \A i \in 1..Len(csv) : run.results[i].event = ReadCsv(csv)[i]

\* the rows that abort batch_analyze are the file_access rows of a profiled
\* user without a file_name; every other file gets its N results in order
C17_OnlyFileNameAborts ==
    csv # <<>> =>
        IF \E i \in 1..Len(csv) :
               /\ csv[i].event_type = "file_access"
               /\ csv[i].file_name = <<>>
               /\ csv[i].user_id # <<>>
               /\ csv[i].user_id[1] \in DOMAIN user_profiles
        THEN run.status = "raised"
        ELSE /\ run.status = "returned"
             /\ Len(run.results) = Len(csv)
             /\ \A i \in 1..Len(csv) : run.results[i].event = ReadCsv(csv)[i]

\* create_user_profiles returns, whatever cells the rows lack
C17_TrainReturns ==
    trained.status # "raised"

\* ------------------------------------------------------------------------
\* A file-backed connector with two log files, one of which cannot be read
\* for a while (a host where both auth.log and secure exist)
\* ------------------------------------------------------------------------
MaxRetryLines == 2

RetryFiles == {"auth.log", "secure"}

\* syslog appends one line to a log file
WriteLine(f) ==
    /\ wr["auth.log"] + wr["secure"] < 2 * MaxRetryLines
    /\ wr' = [wr EXCEPT ![f] = @ + 2]
    /\ fs' = [fs EXCEPT ![f].data = @ \o <<<<wr[f] + 1, "a">>, <<wr[f] + 2, "\n">>>>]
    /\ Touch(f)
    /\ connState' = Settled
    /\ UNCHANGED <<connectors, gen, yielded, ncalls, touchedPrev, mark, runVars, mgrVars,
                   scoreVars, batchVars, swapVars, stdVars>>

InitRetry ==
    /\ connectors = [n \in {FC} |-> NewLinuxAuth(DefaultAuthFiles)]
    /\ fs \in {x \in [Files -> [ok : BOOLEAN, data : {<<>>}]] :
                   \A f \in Files \ RetryFiles : ~x[f].ok}
    /\ wr = [f \in Files |-> 0]
    /\ gen = GenIdle
    /\ yielded = <<>>
    /\ ncalls = 0
    /\ touched = [f \in Files |-> FALSE]
    /\ touchedPrev = [f \in Files |-> FALSE]
    /\ mark = [f \in Files |-> 0]
    /\ connState = "new"
    /\ IdleRun
    /\ IdleMgr
    /\ IdleScore
    /\ IdleBatch
    /\ IdleSwap
    /\ IdleStd

NextRetry ==
    \/ \E f \in RetryFiles : WriteLine(f)
    \/ \E f \in RetryFiles : SetAccess(f)
    \/ Connect
    \/ FetchBegin
    \/ FetchStat
    \/ FetchRead

SpecRetry == InitRetry /\ [][NextRetry]_vars

\* the file the generator is at
CurrentFile == connectors[FC].log_files[gen.i]

\* the records of file f from offset pos on, as fetch_events yields them
RecordsFrom(f, pos) ==
    [k \in 1..Len(NewLines(f, pos)) |-> <<f, NewLines(f, pos)[k]>>]

\* C18: when a file cannot be read during a fetch_events call, the call goes
\* on (no exception leaves it): the offset of the file stays as it was,
\* nothing is yielded for it, and the call turns to the next file or ends;
\* a file that can be read, in the same call or in a later one, yields its
\* data from the stored offset on and gets the size as its new offset.
C18_UnreadableFileIsRetried ==
    [][(gen.active /\ gen.phase = "read" /\ gen' # gen) =>
          LET f == CurrentFile
          IN  /\ gen' = GenAfterFile(connectors[FC], gen.i)
              /\ connectors'[FC].log_files = connectors[FC].log_files
              /\ \A g \in Files \ {f} :
                     DictGet(connectors'[FC].last_positions, g, 0) = Pos(g)
              /\ IF ~fs[f].ok
                 THEN /\ connectors'[FC].last_positions = connectors[FC].last_positions
                      /\ yielded' = yielded
                 ELSE gen.current_size > Pos(f) =>
                          /\ yielded' = yielded \o RecordsFrom(f, Pos(f))
                          /\ DictGet(connectors'[FC].last_positions, f, 0)
                                 = gen.current_size
      ]_vars

\* C18 witness: a call has ended in which auth.log, holding unread data, could
\* not be read and kept its offset, and secure, the file after it, was read.
C18_Witness ==
    /\ ~gen.active /\ ncalls > 0
    /\ connectors[FC].log_files = DefaultAuthFiles
    /\ ~fs["auth.log"].ok /\ ~touched["auth.log"]
    /\ Len(fs["auth.log"].data) > Pos("auth.log")
    /\ YieldedFor("auth.log") = <<>>
    /\ YieldedFor("secure") # <<>>
    /\ Pos("secure") = Len(fs["secure"].data)

\* a later call has read auth.log from the offset it had kept: the call
\* before left it unread, and this one yields the line written first
C18_WitnessLater ==
    /\ ~gen.active /\ ncalls = 2
    /\ ~touched["auth.log"] /\ touchedPrev["auth.log"]
    /\ mark["auth.log"] = 0
    /\ Len(yielded) = 2
    /\ yielded[1] = <<"auth.log", <<<<1, "a">>>>>>
    /\ Pos("auth.log") = 4

\* ------------------------------------------------------------------------
\* connect() of the four connectors, called again and again while the
\* sources come and go
\* ------------------------------------------------------------------------
MaxConnects == 2

\* a connector of each class, as an application configures it; a behaviour
\* follows one of them
Configured ==
    [linux_auth   |-> NewLinuxAuth(DefaultAuthFiles),
     web_log      |-> NewWebLog(<<"access.log">>),
     db_main      |-> NewDatabase(<<"mysql.log">>, TRUE),
     file_monitor |-> NewFileMonitor]

\* connect() of any connector
AnyConnect(name, conn) ==
    IF conn.kind = "FileMonitorConnector" THEN FMConnectOp(conn)
    ELSE ConnectorConnect(name, conn)

\* connector.connect() is called and returns
ConnectCall(name) ==
    /\ calls[name] < MaxConnects
    /\ LET r == AnyConnect(name, connectors[name])
       IN  /\ connectors' = [connectors EXCEPT ![name] = r.conn]
           /\ outcome' = [outcome EXCEPT ![name] = IF r.result THEN "ok" ELSE "failed"]
    /\ calls' = [calls EXCEPT ![name] = @ + 1]
    /\ UNCHANGED <<registered, mgr, mpc, collected, lastOp, dbUp, apiStatus,
                   fileVars, runVars, scoreVars, batchVars, swapVars, stdVars>>

\* read permission on a log file is revoked or granted
SetFileAccess(f) ==
    /\ fs' = [fs EXCEPT ![f].ok = ~@]
    /\ UNCHANGED <<connectors, wr, gen, yielded, ncalls, touched, touchedPrev, mark,
                   connState, runVars, mgrVars, scoreVars, batchVars, swapVars,
                   stdVars>>

\* the watched directory is removed or created
SetDirectory ==
    /\ dirOK' = ~dirOK
    /\ UNCHANGED <<connectors, threads, ctl, callErr, orphan, nev, nstart, stopped,
                   putAfterStop, fileVars, mgrVars, scoreVars, batchVars, swapVars,
                   stdVars>>

\* the database server goes down or comes up
SetDatabase(name) ==
    /\ dbUp' = [dbUp EXCEPT ![name] = ~@]
    /\ UNCHANGED <<connectors, registered, mgr, mpc, outcome, calls, collected, lastOp,
                   apiStatus, fileVars, runVars, scoreVars, batchVars, swapVars,
                   stdVars>>

InitConnect ==
    /\ \E name \in DOMAIN Configured :
           /\ connectors = [n \in {name} |-> Configured[n]]
           /\ outcome = [n \in {name} |-> ""]
           /\ calls = [n \in {name} |-> 0]
    /\ registered = <<>>
    /\ mgr = [is_running |-> FALSE]
    /\ mpc = [op |-> "idle", i |-> 0]
    /\ collected = <<>>
    /\ lastOp = ""
    /\ dbUp \in [{"db_main"} -> BOOLEAN]
    /\ apiStatus = ""
    /\ fs \in [Files -> [ok : BOOLEAN, data : {<<>>}]]
    /\ wr = [f \in Files |-> 0]
    /\ gen = GenIdle
    /\ yielded = <<>>
    /\ ncalls = 0
    /\ touched = [f \in Files |-> FALSE]
    /\ touchedPrev = [f \in Files |-> FALSE]
    /\ mark = [f \in Files |-> 0]
    /\ connState = "new"
    /\ threads = <<>>
    /\ ctl = "idle"
    /\ callErr = ""
    /\ dirOK \in BOOLEAN
    /\ orphan = FALSE
    /\ nev = 0
    /\ nstart = 0
    /\ stopped = FALSE
    /\ putAfterStop = FALSE
    /\ IdleScore
    /\ IdleBatch
    /\ IdleSwap
    /\ IdleStd

NextConnect ==
    \/ \E name \in DOMAIN connectors : ConnectCall(name)
    \/ \E f \in Files : SetFileAccess(f)
    \/ SetDirectory
    \/ \E name \in DOMAIN dbUp : SetDatabase(name)

SpecConnect == InitConnect /\ [][NextConnect]_vars

\* at least one of the sources the connector was configured with can be
\* reached and read
Reachable(name) ==
    CASE Configured[name].kind = "FileMonitorConnector" -> dirOK
      [] Configured[name].kind = "DatabaseConnector" ->
             \/ Configured[name].db_config /\ dbUp[name]
             \/ \E f \in Range(Configured[name].log_files) : fs[f].ok
      [] OTHER -> \E f \in Range(Configured[name].log_files) : fs[f].ok

\* C19: connect() of each connector returns success when at least one of its
\* configured sources is reachable and readable, and failure when none is.
C19_ConnectIffReachable ==
    [][\A name \in DOMAIN connectors :
           calls'[name] # calls[name]
               => (outcome'[name] = "ok" <=> Reachable(name))]_vars

\* what the code keeps: connect() always returns True or False; the first
\* connect() of LinuxAuthConnector and of WebLogConnector returns True
\* exactly when one of the configured files is readable
C19_FirstFileConnect ==
    [][\A name \in DOMAIN connectors :
           calls'[name] # calls[name] =>
               /\ outcome'[name] \in {"ok", "failed"}
               /\ (calls[name] = 0 /\ name \in {"linux_auth", "web_log"})
                      => (outcome'[name] = "ok" <=> Reachable(name))]_vars

\* ------------------------------------------------------------------------
\* collect_recent_events over connectors whose fetch_events or parse_event
\* may raise
\* ------------------------------------------------------------------------
MaxFault == 2

\* the connectors the application has registered and connected
CollectNames == {<<"linux_auth", "web_log">>, <<"web_log", "linux_auth">>}

\* fetch_events() iterated until its k-th record has been yielded, from file
\* i of log_files on: the generator is not resumed after that record
RECURSIVE FetchUntil(_, _, _)
FetchUntil(conn, i, k) ==
    IF i > Len(conn.log_files)
    THEN [conn |-> conn, out |-> <<>>, hit |-> FALSE]
    ELSE LET f  == conn.log_files[i]
             r  == FetchFile(conn, f, GetFileSize(f))
             c2 == [conn EXCEPT !.last_positions = r.pos]
         IN  IF Len(r.out) >= k
             THEN [conn |-> c2, out |-> SubSeq(r.out, 1, k), hit |-> TRUE]
             ELSE LET rest == FetchUntil(c2, i + 1, k - Len(r.out))
                  IN  [conn |-> rest.conn, out |-> r.out \o rest.out,
                       hit |-> rest.hit]

\* the connectors collect_recent_events turns to after the except branch
AfterException_Abort(names) == <<>>
AfterException(names) == Tail(names)

\* collect_recent_events over the connectors names; fault[name] = k > 0:
\* handling the k-th record of name raises (parse_event on it, or
\* fetch_events in place of yielding it), 0: nothing raises
RECURSIVE CollectFaulty(_, _, _, _, _)
CollectFaulty(names, conns, all_events, fault, raised) ==
    IF names = <<>>
    THEN [connectors |-> conns, all_events |-> all_events, raised |-> raised]
    ELSE LET name == Head(names)
             r    == IF fault[name] = 0
                     THEN [conn |-> FetchEvents(conns[name], 1).conn,
                           out |-> FetchEvents(conns[name], 1).out,
                           hit |-> FALSE]
                     ELSE FetchUntil(conns[name], 1, fault[name])
             done == IF r.hit THEN SubSeq(r.out, 1, Len(r.out) - 1) ELSE r.out
         IN  CollectFaulty(IF r.hit THEN AfterException(names) ELSE Tail(names),
                           [conns EXCEPT ![name] = r.conn],
                           all_events \o ParseAndTag(conns[name], name, done),
                           fault,
                           IF r.hit THEN raised \cup {name} ELSE raised)

\* collect_recent_events() is called and returns
CollectWithFaults(fault) ==
    /\ mpc.op = "idle"
    /\ LET r == CollectFaulty(registered, connectors, <<>>, fault, {})
       IN  /\ connectors' = r.connectors
           /\ outcome' = [n \in Range(registered) |->
                             IF n \in r.raised THEN "raised" ELSE "ok"]
           /\ Returned("collect", "", r.all_events)
    /\ UNCHANGED <<registered, mgr, mpc, calls, dbUp, fileVars, runVars,
                   scoreVars, batchVars, swapVars, stdVars>>

InitCollect ==
    /\ registered \in CollectNames
    /\ fs = [f \in Files |-> [ok |-> f \in MgrFiles, data |-> <<>>]]
    /\ connectors = [n \in Range(registered) |-> ConnectOp(NewConnector(n)).conn]
    /\ mgr = [is_running |-> TRUE]
    /\ mpc = [op |-> "idle", i |-> 0]
    /\ outcome = [n \in Range(registered) |-> "ok"]
    /\ calls = [n \in Range(registered) |-> 1]
    /\ collected = <<>>
    /\ lastOp = ""
    /\ dbUp = EmptyDict
    /\ apiStatus = ""
    /\ wr = [f \in Files |-> 0]
    /\ gen = GenIdle
    /\ yielded = <<>>
    /\ ncalls = 0
    /\ touched = [f \in Files |-> FALSE]
    /\ touchedPrev = [f \in Files |-> FALSE]
    /\ mark = [f \in Files |-> 0]
    /\ connState = "new"
    /\ IdleRun
    /\ IdleScore
    /\ IdleBatch
    /\ IdleSwap
    /\ IdleStd

NextCollect ==
    \/ \E fault \in [Range(registered) -> 0..MaxFault] : CollectWithFaults(fault)
    \/ \E f \in MgrFiles, line \in Lines : AppendLine(f, line)

SpecCollect == InitCollect /\ [][NextCollect]_vars

\* the events of list evs that carry the tag name
TaggedAs(evs, name) == SelectSeq(evs, LAMBDA ev : ev.source_connector = name)

\* what connector name has to give when nothing raises
Available(name) ==
    ParseAndTag(connectors[name], name, FetchEvents(connectors[name], 1).out)

IsPrefix(a, b) == Len(a) <= Len(b) /\ a = SubSeq(b, 1, Len(a))

\* C20: collect_recent_events returns whatever raises inside a connector:
\* every connector that did not raise is collected in full, before or after
\* the one that raised; of a connector that raised the events parsed before
\* the exception are in the list; the list is in registration order.
C20_ExceptionIsAbsorbed ==
    [][lastOp' = "collect" =>
          /\ \A n \in Range(registered) :
                 IF outcome'[n] = "raised"
                 THEN /\ IsPrefix(TaggedAs(collected', n), Available(n))
                      /\ Len(TaggedAs(collected', n)) < MaxFault
                 ELSE TaggedAs(collected', n) = Available(n)
          /\ \A i, j \in 1..Len(collected') :
                 i < j => RegIndex(collected'[i].source_connector)
                              <= RegIndex(collected'[j].source_connector)
      ]_vars

\* C20 witness: the connector registered first raised, and the list returned
\* holds an event of the connector registered second.
C20_Witness ==
    /\ lastOp = "collect"
    /\ outcome[registered[1]] = "raised"
    /\ outcome[registered[2]] = "ok"
    /\ TaggedAs(collected, registered[2]) # <<>>

\* ------------------------------------------------------------------------
\* Properties of start_all_connectors without a usable connector
\* ------------------------------------------------------------------------

\* C21: when start_all_connectors ends and no connector has connected, the
\* manager does not report itself as running.
C21_ZeroConnectedIsFailure ==
    (lastOp = "start_all" /\ \A n \in Range(registered) : outcome[n] # "ok")
        => ~mgr.is_running

\* what the code does: start_all_connectors ends the same way whatever the
\* connectors answered, with is_running set and nothing returned
C21_AlwaysRunning ==
    lastOp = "start_all" => (mgr.is_running /\ apiStatus = "" /\ collected = <<>>)

\* ------------------------------------------------------------------------
\* BaseConnector.standardize_event
\* ------------------------------------------------------------------------
\* A dict is a function from its keys to strings: None is "None", True is
\* "True", {} is "{}", datetime.now().isoformat() is "now".
PyNone == "None"

\* the keys of the dict standardize_event returns
NormalizedKeys ==
    {"timestamp", "user_id", "user_name", "event_type", "source_ip", "location",
     "country", "device", "success", "file_name", "file_size_mb", "action",
     "details", "source"}

\* the second argument of each event_data.get(...); get(key) is get(key, None)
GetDefault(key) ==
    CASE key = "timestamp" -> "now"
      [] key = "location"  -> "Unknown"
      [] key = "country"   -> "Unknown"
      [] key = "success"   -> "True"
      [] key = "details"   -> "{}"
      [] OTHER             -> PyNone

\* standardize_event(event_data) of a connector of class kind
StandardizeFields(kind, event_data) ==
    [key \in NormalizedKeys |->
        IF key = "source" THEN kind
        ELSE DictGet(event_data, key, GetDefault(key))]

\* the keys a parse_event may or may not supply
OptionalKeys ==
    {"user_name", "source_ip", "location", "country", "device", "success", "file_name"}

\* what a source supplies for a key
Supplied(key) == IF key = "success" THEN "False" ELSE "x"

\* the dicts handed to standardize_event: event_type and any of the
\* optional keys
EventData ==
    {[key \in ks \cup {"event_type"} |->
         IF key = "event_type" THEN "login" ELSE Supplied(key)] : ks \in SUBSET OptionalKeys}

Standardize(kind, event_data) ==
    /\ std' = [status |-> "returned", event_data |-> event_data,
               event |-> StandardizeFields(kind, event_data)]
    /\ UNCHANGED <<connectors, fileVars, runVars, mgrVars, scoreVars, batchVars, swapVars>>

InitStd ==
    /\ connectors = EmptyDict
    /\ IdleFile
    /\ IdleRun
    /\ IdleMgr
    /\ IdleScore
    /\ IdleBatch
    /\ IdleSwap
    /\ IdleStd

NextStd ==
    \E kind \in {"LinuxAuthConnector", "FileMonitorConnector"}, event_data \in EventData :
        Standardize(kind, event_data)

SpecStd == InitStd /\ [][NextStd]_vars

\* the sentinel the normalized event is to hold for a field the source did
\* not supply
Sentinel(key) ==
    CASE key = "user_name" -> "unknown"
      [] key = "success"   -> "True"
      [] OTHER             -> "Unknown"

SentinelKeys == {"source_ip", "location", "country", "device", "user_name", "success"}

\* C22: every event standardize_event returns has every normalized key, and
\* each of source_ip, location, country, device, user_name and success that
\* the source did not supply holds its sentinel.
C22_SentinelsForMissingFields ==
    std.status = "returned" =>
        /\ DOMAIN std.event = NormalizedKeys
        /\ \A key \in SentinelKeys \ DOMAIN std.event_data :
               std.event[key] = Sentinel(key)

\* what the code keeps: every key is there, and location, country and
\* success hold their sentinel when not supplied
C22_AllKeysPresent ==
    std.status = "returned" =>
        /\ DOMAIN std.event = NormalizedKeys
        /\ \A key \in {"location", "country", "success"} \ DOMAIN std.event_data :
               std.event[key] = Sentinel(key)
        /\ \A key \in DOMAIN std.event_data : std.event[key] = std.event_data[key]

\* ------------------------------------------------------------------------
\* The stored offsets over the connector's lifetime (SpecFile)
\* ------------------------------------------------------------------------

C24_SingleWriter ==
    [][\A n \in DOMAIN connectors :
           ( /\ connectors[n].is_running
             /\ connectors'[n].last_positions # connectors[n].last_positions )
           => (lastOp' # "collect" /\ mpc.op # "start_all")
      ]_vars

\* what the code keeps: a turn of a connector's loop writes no other
\* connector's offsets
C24_NoCrossLoopWriter ==
    [][\A n \in DOMAIN connectors :
           ( /\ n # MC /\ lastOp' = "" /\ mpc.op = "idle"
             /\ n \in DOMAIN connectors' )
           => connectors'[n].last_positions = connectors[n].last_positions
      ]_vars


\* ------------------------------------------------------------------------
\* The monitor loop of a file-backed connector, with the except branch
\* (BaseConnector._monitor_loop over LinuxAuthConnector.fetch_events)
\* ------------------------------------------------------------------------
MaxLoopLines == 2

\* time.sleep(self.config.get('poll_interval', 5)) with no poll_interval set
PollInterval == 5

\* time.sleep(10) of the except branch
BackoffSeconds == 10

\* the file the connector of this part follows
LoopFile == "auth.log"

\* the lines syslog writes: "a" is a line parse_event handles, "x" a line on
\* which the parse_event of the subclass raises
LoopChars == {"a", "x"}

\* parse_event(raw_event) raises
ParseRaises(raw_event) == raw_event # <<>> /\ raw_event[1][2] = "x"

\* while self.is_running:
KeepsRunning_Always(conn) == TRUE
KeepsRunning(conn) == conn.is_running

\* where an exception raised inside the try block takes the loop
ExceptBranch_Exit == "dead"
ExceptBranch == "backoff"

\* the seconds the loop sleeps at a position
SleepSeconds(pc) == IF pc = "backoff" THEN BackoffSeconds ELSE PollInterval

\* syslog appends one whole line to the file
MonAppend(ch) ==
    /\ wr[LoopFile] < 2 * MaxLoopLines
    /\ wr' = [wr EXCEPT ![LoopFile] = @ + 2]
    /\ fs' = [fs EXCEPT ![LoopFile].data =
                  @ \o <<<<wr[LoopFile] + 1, ch>>, <<wr[LoopFile] + 2, "\n">>>>]
    /\ UNCHANGED <<connectors, gen, yielded, ncalls, touched, touchedPrev, mark,
                   connState, runVars, mgrVars, scoreVars, batchVars, swapVars, stdVars>>

\* BaseConnector.start_monitoring()
MonStart ==
    /\ ctl = "idle"
    /\ nstart < MaxStarts
    /\ nstart' = nstart + 1
    /\ stopped' = FALSE
    /\ LET r == BaseStart(connectors[FC], threads)
       IN  /\ connectors' = [connectors EXCEPT ![FC] = r.conn]
           /\ threads' = r.threads
    /\ UNCHANGED <<ctl, callErr, dirOK, orphan, nev, putAfterStop, fileVars, mgrVars,
                   scoreVars, batchVars, swapVars, stdVars>>

\* BaseConnector.stop_monitoring(): self.is_running = False
MonStopFlag ==
    /\ ctl = "idle"
    /\ connectors' = [connectors EXCEPT ![FC].is_running = FALSE]
    /\ ctl' = "stop_join"
    /\ UNCHANGED <<threads, callErr, dirOK, orphan, nev, nstart, stopped, putAfterStop,
                   fileVars, mgrVars, scoreVars, batchVars, swapVars, stdVars>>

\* BaseConnector.stop_monitoring(): if self.worker_thread: join()
MonStopJoin ==
    /\ ctl = "stop_join"
    /\ IF connectors[FC].worker_thread = NoThread
       THEN TRUE
       ELSE JoinReturns(connectors[FC].worker_thread)
    /\ ctl' = "idle"
    /\ stopped' = TRUE
    /\ UNCHANGED <<connectors, threads, callErr, dirOK, orphan, nev, nstart, putAfterStop,
                   fileVars, mgrVars, scoreVars, batchVars, swapVars, stdVars>>

\* while self.is_running:
MonWhile(t) ==
    /\ threads[t].pc = "while"
    /\ threads' = [threads EXCEPT ![t].pc =
                       IF KeepsRunning(connectors[FC]) THEN "fetch" ELSE "dead"]
    /\ UNCHANGED <<connectors, ctl, callErr, dirOK, orphan, nev, nstart, stopped,
                   putAfterStop, fileVars, mgrVars, scoreVars, batchVars, swapVars,
                   stdVars>>

\* for raw_event in self.fetch_events(): the first next() reads the new lines
\* of the file and stores the offset; item holds the lines not yet yielded
MonFetch(t) ==
    /\ threads[t].pc = "fetch"
    /\ LET r == FetchEvents(connectors[FC], 1)
       IN  /\ connectors' = [connectors EXCEPT ![FC] = r.conn]
           /\ threads' = [threads EXCEPT ![t] =
                  [pc |-> IF r.out = <<>> THEN "sleep" ELSE "chk", item |-> r.out]]
    /\ UNCHANGED <<ctl, callErr, dirOK, orphan, nev, nstart, stopped, putAfterStop,
                   fileVars, mgrVars, scoreVars, batchVars, swapVars, stdVars>>

\* for raw_event in self.fetch_events(): the fetch_events of the subclass
\* raises before it has read anything
MonFetchRaises(t) ==
    /\ threads[t].pc = "fetch"
    /\ threads' = [threads EXCEPT ![t] = [pc |-> ExceptBranch, item |-> <<>>]]
    /\ UNCHANGED <<connectors, ctl, callErr, dirOK, orphan, nev, nstart, stopped,
                   putAfterStop, fileVars, mgrVars, scoreVars, batchVars, swapVars,
                   stdVars>>

\* if not self.is_running: break
MonCheck(t) ==
    /\ threads[t].pc = "chk"
    /\ threads' = [threads EXCEPT ![t] =
                       IF connectors[FC].is_running
                       THEN [pc |-> "put", item |-> @.item]
                       ELSE [pc |-> "sleep", item |-> <<>>]]
    /\ UNCHANGED <<connectors, ctl, callErr, dirOK, orphan, nev, nstart, stopped,
                   putAfterStop, fileVars, mgrVars, scoreVars, batchVars, swapVars,
                   stdVars>>

\* parsed_event = self.parse_event(raw_event); if parsed_event: put; an
\* exception leaves the for loop and the generator for the except branch
MonPut(t) ==
    /\ threads[t].pc = "put"
    /\ LET raw_event == Head(threads[t].item)
           rest      == Tail(threads[t].item)
       IN  IF ParseRaises(raw_event)
           THEN /\ threads' = [threads EXCEPT ![t] = [pc |-> ExceptBranch, item |-> <<>>]]
                /\ UNCHANGED <<connectors, putAfterStop>>
           ELSE /\ connectors' = [connectors EXCEPT ![FC].event_queue =
                                      @ \o ParseEvent(connectors[FC], raw_event)]
                /\ threads' = [threads EXCEPT ![t] =
                       [pc |-> IF rest = <<>> THEN "sleep" ELSE "chk", item |-> rest]]
                /\ putAfterStop' = (putAfterStop \/ stopped)
    /\ UNCHANGED <<ctl, callErr, dirOK, orphan, nev, nstart, stopped,
                   fileVars, mgrVars, scoreVars, batchVars, swapVars, stdVars>>

\* time.sleep(poll_interval) at the end of the try block
MonSleep(t) ==
    /\ threads[t].pc = "sleep"
    /\ threads' = [threads EXCEPT ![t].pc = "while"]
    /\ UNCHANGED <<connectors, ctl, callErr, dirOK, orphan, nev, nstart, stopped,
                   putAfterStop, fileVars, mgrVars, scoreVars, batchVars, swapVars,
                   stdVars>>

\* except Exception: logger.error(...); time.sleep(10)
MonBackoff(t) ==
    /\ threads[t].pc = "backoff"
    /\ threads' = [threads EXCEPT ![t].pc = "while"]
    /\ UNCHANGED <<connectors, ctl, callErr, dirOK, orphan, nev, nstart, stopped,
                   putAfterStop, fileVars, mgrVars, scoreVars, batchVars, swapVars,
                   stdVars>>

\* one step of monitor thread t
MonThread(t) ==
    /\ t \in 1..Len(threads)
    /\ \/ MonWhile(t)
       \/ MonFetchRaises(t)
       \/ MonFetch(t)
       \/ MonCheck(t)
       \/ MonPut(t)
       \/ MonSleep(t)
       \/ MonBackoff(t)

\* a connector that connect() has opened on an empty, readable log file
InitLoop ==
    /\ fs = [f \in Files |-> [ok |-> f = LoopFile, data |-> <<>>]]
    /\ connectors = [n \in {FC} |-> ConnectOp(NewLinuxAuth(<<LoopFile>>)).conn]
    /\ wr = [f \in Files |-> 0]
    /\ gen = GenIdle
    /\ yielded = <<>>
    /\ ncalls = 0
    /\ touched = [f \in Files |-> FALSE]
    /\ touchedPrev = [f \in Files |-> FALSE]
    /\ mark = [f \in Files |-> 0]
    /\ connState = "connected"
    /\ IdleRun
    /\ IdleMgr
    /\ IdleScore
    /\ IdleBatch
    /\ IdleSwap
    /\ IdleStd

NextLoop ==
    \/ \E ch \in LoopChars : MonAppend(ch)
    \/ MonStart
    \/ MonStopFlag
    \/ MonStopJoin
    \/ \E t \in 1..Len(threads) : MonWhile(t)
    \/ \E t \in 1..Len(threads) : MonFetch(t)
    \/ \E t \in 1..Len(threads) : MonFetchRaises(t)
    \/ \E t \in 1..Len(threads) : MonCheck(t)
    \/ \E t \in 1..Len(threads) : MonPut(t)
    \/ \E t \in 1..Len(threads) : MonSleep(t)
    \/ \E t \in 1..Len(threads) : MonBackoff(t)

SpecLoop == InitLoop /\ [][NextLoop]_vars

\* the loop's position changes in this step
Moves(t) == threads'[t] # threads[t]

\* C25: an exception raised inside the loop while is_running is true does not
\* end it: the step that raises goes to the except branch, whose sleep
\* (10 s) is longer than the poll sleep (5 s) and is followed by the loop
\* test and, is_running still true, by another fetch; a thread exits only
\* from the loop test and only when is_running is false.
C25_LoopSurvivesExceptions ==
    [][\A t \in 1..Len(threads) :
          /\ (threads[t].pc = "put" /\ ParseRaises(Head(threads[t].item)) /\ Moves(t))
                => (threads'[t].pc = "backoff"
                    /\ SleepSeconds(threads'[t].pc) = BackoffSeconds
                    /\ SleepSeconds(threads'[t].pc) > PollInterval)
          /\ (threads[t].pc = "fetch" /\ Moves(t))
                => threads'[t].pc \in {"chk", "sleep", "backoff"}
          /\ (threads[t].pc = "backoff" /\ Moves(t)) => threads'[t].pc = "while"
          /\ (threads[t].pc = "while" /\ connectors[FC].is_running /\ Moves(t))
                => threads'[t].pc = "fetch"
          /\ (threads[t].pc # "dead" /\ threads'[t].pc = "dead")
                => (threads[t].pc = "while" /\ ~connectors[FC].is_running)]_vars

\* the "a" lines of the file that lie wholly below the stored offset
ConsumedLines ==
    LET data == fs[LoopFile].data
        pos  == DictGet(connectors[FC].last_positions, LoopFile, 0)
    IN  {k \in 1..Len(data) : data[k][2] = "a" /\ k + 1 <= pos}

\* the byte numbers of the lines that have an event on event_queue
QueuedLines ==
    {connectors[FC].event_queue[i].id[1][1] :
         i \in 1..Len(connectors[FC].event_queue)}

\* C25 witness: the first line written made parse_event raise, the second was
\* read by a later fetch of the same thread and its event is queued.
C25_Witness ==
    /\ nstart = 1
    /\ Len(fs[LoopFile].data) = 4
    /\ fs[LoopFile].data[1][2] = "x"
    /\ QueuedLines = {3}
    /\ connectors[FC].is_running
    /\ threads[1].pc # "dead"


\* ------------------------------------------------------------------------
\* Partial lines and concurrent writers (SpecFile)
\* ------------------------------------------------------------------------
\* the place in the file of the byte numbered k (0: no longer in the file)
IndexOf(f, k) ==
    LET at == {j \in 1..Len(fs[f].data) : fs[f].data[j][1] = k}
    IN  IF at = {} THEN 0 ELSE CHOOSE j \in at : TRUE

\* the record ends where a newline follows it in the file
Terminated(f, rec) ==
    \/ rec = <<>>
    \/ LET j == IndexOf(f, rec[Len(rec)][1])
       IN  j > 0 /\ j < Len(fs[f].data) /\ fs[f].data[j + 1][2] = "\n"

\* this step is the read of file f by fetch_events
ReadsFile(f) ==
    /\ gen.active /\ gen.phase = "read" /\ gen' # gen
    /\ connectors[FC].log_files[gen.i] = f

\* C26: the read of a file yields whole lines only (each record is followed
\* by its newline in the file) and leaves the offset at a line boundary, so
\* the bytes of an unfinished last line stay ahead of the offset.
C26_NoPartialRecord ==
    [][\A f \in Files :
          ReadsFile(f) =>
             /\ \A k \in Len(yielded) + 1 .. Len(yielded') : Terminated(f, yielded'[k][2])
             /\ LET pos == DictGet(connectors'[FC].last_positions, f, 0)
                IN  \/ pos = DictGet(connectors[FC].last_positions, f, 0)
                    \/ (pos <= Len(fs[f].data) /\ fs[f].data[pos][2] = "\n")
      ]_vars

\* what holds of the read instead: it yields every byte from the old offset
\* to end-of-file, cut after each newline, the unfinished tail included
C26_ReadsToEndOfFile ==
    [][\A f \in Files :
          (ReadsFile(f) /\ fs[f].ok
             /\ gen.current_size > DictGet(connectors[FC].last_positions, f, 0))
          => /\ DictGet(connectors'[FC].last_positions, f, 0) = gen.current_size
             /\ SubSeq(yielded', Len(yielded) + 1, Len(yielded')) =
                   [k \in 1..Len(NewLines(f, Pos(f))) |-> <<f, NewLines(f, Pos(f))[k]>>]
      ]_vars

\* C27: with a writer appending between the size check and the read, the
\* offset a read stores for a readable file is the old offset plus the number
\* of bytes the read consumed, so that no later call yields a byte again and
\* none is skipped.
C27_OffsetIsBytesConsumed ==
    [][\A f \in Files :
          (ReadsFile(f) /\ fs[f].ok
             /\ gen.current_size > DictGet(connectors[FC].last_positions, f, 0))
          => LET old == DictGet(connectors[FC].last_positions, f, 0)
                 read == IF old >= Len(fs[f].data) THEN 0 ELSE Len(fs[f].data) - old
             IN  DictGet(connectors'[FC].last_positions, f, 0) = old + read
      ]_vars

\* the byte numbers of one record
BytesOf(rec) == {rec[i][1] : i \in 1..Len(rec)}

\* what holds within one call: its records share no byte with each other
C27_NoByteTwiceInCall ==
    \A i, j \in 1..Len(yielded) :
        (i < j /\ yielded[i][1] = yielded[j][1])
            => BytesOf(yielded[i][2]) \cap BytesOf(yielded[j][2]) = {}


\* ------------------------------------------------------------------------
\* Lines read by the monitor loop and events queued (SpecLoop)
\* ------------------------------------------------------------------------
\* the lines a monitor thread has fetched and not yet handled
PendingLines ==
    UNION {{threads[t].item[i][1][1] : i \in 1..Len(threads[t].item)} :
               t \in 1..Len(threads)}

\* C28: every parseable line the offset has moved past either has its event
\* on event_queue or is still held by the loop for parse_event, whatever
\* start, stop and error steps have happened.
C28_NoLineLost ==
    \A k \in ConsumedLines : k \in QueuedLines \/ k \in PendingLines

\* what holds of the queue: a line has at most one event on it, and only
\* lines the offset has moved past have one
C28_AtMostOnce ==
    /\ QueuedLines \subseteq ConsumedLines
    /\ \A i, j \in 1..Len(connectors[FC].event_queue) :
           connectors[FC].event_queue[i].id = connectors[FC].event_queue[j].id => i = j


\* ------------------------------------------------------------------------
\* Termination of stop_monitoring (the monitor loop under a fair scheduler)
\* ------------------------------------------------------------------------
\* start_monitoring() creates a thread only when is_running is false, and
\* only stop_monitoring(), which joins the thread, makes it false
OneLiveThread == Cardinality(LiveThreads) <= 1

\* The monitor thread, when it can take a step, eventually takes one (its
\* sleeps and file reads end), and so does the thread inside stop_monitoring().
SpecLoopFair ==
    /\ InitLoop /\ [][NextLoop]_vars
    /\ WF_vars(\E t \in 1..Len(threads) : MonThread(t))
    /\ WF_vars(MonStopJoin)

SpecRuntimeFair ==
    /\ InitRuntime /\ [][NextRuntime]_vars
    /\ \A t \in 1..MaxStarts :
          WF_vars(t \in 1..Len(threads)
                  /\ (LoopWhile(t) \/ LoopNext(t) \/ LoopCheck(t) \/ LoopPut(t) \/ LoopSleep(t)))
    /\ WF_vars(StopFlag)
    /\ WF_vars(StopJoin)

\* stop_monitoring() of a FileMonitorConnector returns with the loop ended
C29_FileMonitorStopReturns ==
    (ctl \in {"stop_flag", "stop_join"}) ~> (ctl = "idle" /\ stopped /\ LiveThreads = {})


\* ------------------------------------------------------------------------
\* The alert levels analyze_event can produce (SpecScore)
\* ------------------------------------------------------------------------
\* C30: whenever analyze_event returns, the score is one of 0, 0.4, 0.8 and
\* 1.0, so alert_level is NORMAL, MEDIUM or HIGH and never LOW, and
\* is_suspicious is true exactly when the anomalies list is not empty.
C30_LowIsNeverProduced ==
    result.status = "returned" =>
        /\ result.overall_risk_score \in {0, 4, 8, 10}
        /\ result.alert_level \in {"NORMAL", "MEDIUM", "HIGH"}
        /\ result.alert_level # "LOW"
        /\ result.is_suspicious <=> (result.anomalies # <<>>)

\* C30 witness: a file access with two anomalies, score 0.8, comes back HIGH
\* and suspicious after a call that came back NORMAL and not suspicious.
C30_Witness ==
    /\ result.status = "returned"
    /\ result.event.event_type = "file_access"
    /\ Len(result.anomalies) = 2
    /\ result.overall_risk_score = 8
    /\ result.alert_level = "HIGH"
    /\ result.is_suspicious
    /\ prev # <<>>
    /\ prev[1].n = 0
    /\ prev[1].score = 0

=============================================================================
